---- MODULE Spec2Model ----
(***************************************************************************)
(* Railnode storage adapter layer: the CrudStore contract as implemented   *)
(* by the in-memory store, the JSON file store, the Postgres adapter and   *)
(* the MongoDB adapter.                                                    *)
(*                                                                         *)
(* Encoding of values                                                      *)
(*   ids          1..MaxIds are well-formed id strings (a UUID, or the hex *)
(*                string of an ObjectId); 0 is an id string that is not    *)
(*                well formed ("does-not-exist", not 24 hex characters).   *)
(*   timestamps   1..MaxClock are clock readings in milliseconds (the      *)
(*                resolution of Date); 0 is a timestamp sent by a client.  *)
(*   field values strings: "n1", "n2" are numbers, "s1" is a string,       *)
(*                "null" is the JSON null. An undefined field is a key     *)
(*                that is absent from the object.                          *)
(*   objects      functions from a set of keys to values.                  *)
(***************************************************************************)
EXTENDS Integers, Sequences, FiniteSets, TLC

VARIABLES
    kind,       \* the adapter createDbAdapter selected for this process
    items,      \* Memory / File store: the Map id -> CrudItem, in insertion order
    disk,       \* File store: the content of the entity's JSON file
    rows,       \* Postgres: the rows of the entity's table
    docs,       \* MongoDB: the documents of the entity's collection
    validator,  \* MongoDB: whether the collection carries the $jsonSchema validator
    used,       \* ids handed out so far by randomUUID() / new ObjectId()
    clock,      \* the latest reading of the wall clock
    last,       \* the latest completed store call: its arguments and its result
    tasks,      \* in-flight store calls (concurrent requests)
    temp,       \* File store: the content of the temporary file of a rewrite
    aside,      \* File store: the corrupt files renamed aside, with their suffix
    proc,       \* File store: the process owning the store and its rewrite in progress
    boot,       \* Postgres / MongoDB: the bootstrap cache and the bootstraps started
    sql,        \* Postgres: the configured names, the store built on them, the SQL sent
    factory,    \* the config and environment createDbAdapter reads, and what it returns
    life,       \* an adapter's connection, bootstrap memo and cached stores
    fail,       \* a store call of an adapter whose backend fails at one point
    http,       \* the request a CRUD route serves and its response
    app,        \* createApp: the options, the db config and what start() did
    mongo,      \* MongoDB adapter: client, db, collectionCache and the bootstraps started
    twin,       \* a memory store run next to the file store: its Map and its latest result
    iso         \* two registered models and where their stores keep their records

vars == <<kind, items, disk, rows, docs, validator, used, clock, last, tasks, temp, aside, proc,
          boot, sql, factory, life, fail, http, app, mongo, twin, iso>>

\* the state of the stores and their callers
storeVars == <<kind, items, disk, rows, docs, validator, used, clock, last, tasks>>

\* the state only the file store's process life cycle touches
fileVars == <<temp, aside, proc>>

\* the state only the adapters' bootstrap touches
bootVars == <<boot>>

\* the state only the construction of an adapter and its stores touches
confVars == <<sql, factory>>

\* the state of an adapter across init(), store calls and dispose()
lifeVars == <<life>>

\* the state of the error paths, of the routes and of the application
moreVars == <<fail, http, app>>

\* the state of the Document adapter's client and bootstrap cache, and of
\* the memory store run next to the file store, of two models' stores
lateVars == <<mongo, twin, iso>>

aux == <<fileVars, bootVars, confVars, lifeVars, moreVars, lateVars>>

(***************************************************************************)
(* Bounds                                                                  *)
(***************************************************************************)
MaxIds == 2
MaxClock == 2
MaxTasks == 2
MaxJobs == 3
MaxAttempts == 3
MaxNameLen == 2
MaxPools == 3

IdPool == 1..MaxIds
LookupIds == 0..MaxIds
Tasks == 1..MaxTasks

Backends == {"memory", "json", "postgres", "mongodb"}

(***************************************************************************)
(* Objects                                                                 *)
(***************************************************************************)
EmptyObj == [k \in {} |-> "null"]

Restrict(f, S) == [k \in (DOMAIN f) \cap S |-> f[k]]

\* { ...f, ...g }
Spread(f, g) == [k \in (DOMAIN f) \cup (DOMAIN g) |-> IF k \in DOMAIN g THEN g[k] ELSE f[k]]

ReservedKeys == {"id", "createdAt", "updatedAt"}

(***************************************************************************)
(* The entity schema: defineModel("Todo", { a: number(),                   *)
(*                                          b: number().optional() })      *)
(***************************************************************************)
schema == [a |-> [type |-> "number", isOptional |-> FALSE],
           b |-> [type |-> "number", isOptional |-> TRUE]]

SchemaKeys == DOMAIN schema

TypeOf(v) == IF v \in {"n1", "n2"} THEN "number"
             ELSE IF v = "s1" THEN "string"
             ELSE IF v = "t1" THEN "boolean"
             ELSE IF v = "o1" THEN "object"
             ELSE "null"

(***************************************************************************)
(* Payloads a caller may hand to create / update.  "x" is a field the      *)
(* schema does not declare.                                                *)
(***************************************************************************)
Obj(f) == [obj |-> TRUE, f |-> f]

NonObject == [obj |-> FALSE, f |-> EmptyObj]

ClientReserved == [id |-> 0, createdAt |-> 0, updatedAt |-> 0]

\* Every store is driven with: a body that is no object, a body carrying
\* client-sent id / timestamps next to a required, an optional and an
\* undeclared field, an overwrite of "b", and a null for "b".
CommonPayloads ==
    { NonObject,
      Obj(Spread(ClientReserved, [a |-> "n1", b |-> "n1", x |-> "n1"])),
      Obj([b |-> "n2"]),
      Obj([b |-> "null"]) }

\* The document store looks at the schema: it is driven in addition with a
\* set and an unset in one patch, and a value of the wrong type.
StructuredPayloads ==
    { Obj([a |-> "n1", b |-> "null"]),
      Obj([b |-> "s1"]) }

Payloads(k) == IF k = "mongodb" THEN CommonPayloads \cup StructuredPayloads ELSE CommonPayloads

\* a sanitizer that lets the client's id and timestamps through
sanitizeNothing(payload) == IF ~payload.obj THEN EmptyObj ELSE payload.f

sanitizeClientPayload(payload) ==
    IF ~payload.obj THEN EmptyObj
    ELSE Restrict(payload.f, (DOMAIN payload.f) \ ReservedKeys)

(***************************************************************************)
(* Map<string, CrudItem>: a sequence of items with pairwise distinct ids,  *)
(* in insertion order.                                                     *)
(***************************************************************************)
MapHas(m, id) == \E i \in 1..Len(m) : m[i]["id"] = id

MapIndex(m, id) == CHOOSE i \in 1..Len(m) : m[i]["id"] = id

MapGet(m, id) == m[MapIndex(m, id)]

\* a set that replaces an existing entry but never adds one
MapSetExisting(m, item) ==
    IF MapHas(m, item["id"])
    THEN [m EXCEPT ![MapIndex(m, item["id"])] = item]
    ELSE m

MapSet(m, item) ==
    IF MapHas(m, item["id"])
    THEN [m EXCEPT ![MapIndex(m, item["id"])] = item]
    ELSE Append(m, item)

\* a delete by position that removes the last entry when the id is not found
MapDeleteSplice(m, id) ==
    IF MapHas(m, id)
    THEN [i \in 1..(Len(m) - 1) |-> IF i < MapIndex(m, id) THEN m[i] ELSE m[i + 1]]
    ELSE SubSeq(m, 1, Len(m) - 1)

\* a delete that reports the entry but leaves it in the map
MapDeleteKeeps(m, id) == m

MapDelete(m, id) ==
    IF MapHas(m, id)
    THEN [i \in 1..(Len(m) - 1) |-> IF i < MapIndex(m, id) THEN m[i] ELSE m[i + 1]]
    ELSE m

(***************************************************************************)
(* Results of a store call                                                 *)
(***************************************************************************)
Absent == [tag |-> "absent", val |-> EmptyObj]
Found(item) == [tag |-> "item", val |-> item]
Bool(b) == [tag |-> "bool", val |-> b]
List(s) == [tag |-> "list", val |-> s]
Thrown == [tag |-> "error", val |-> EmptyObj]
NoResult == [tag |-> "none", val |-> EmptyObj]

Call(op, id, payload, res) == [op |-> op, id |-> id, payload |-> payload, res |-> res]

NoCall == Call("none", 0, NonObject, NoResult)

\* a create call in flight: where it stands, its body, the id it generated
Task(pc, payload, id, res) == [pc |-> pc, payload |-> payload, id |-> id, res |-> res]

IdleTask == Task("idle", NonObject, 0, NoResult)

\* an id generator that can return an id it has returned before
randomUUIDRepeats(taken) == IdPool

\* randomUUID(): an id no earlier call returned
randomUUID(taken) == IdPool \ taken

\* new Date(): the wall clock does not run backwards
nowIso(latest) == latest..MaxClock

(***************************************************************************)
(* Memory store                                                            *)
(***************************************************************************)
NewItem(id, now, payload) ==
    Spread([id |-> id, createdAt |-> now, updatedAt |-> now], sanitizeClientPayload(payload))

\* replace-on-update: the record is rebuilt from the body alone
UpdatedItemReplaced(existing, payload, now) ==
    Spread(Spread([id |-> existing["id"], createdAt |-> existing["createdAt"]],
                  sanitizeClientPayload(payload)),
           [updatedAt |-> now])

\* an update that forgets to refresh updatedAt
UpdatedItemStale(existing, payload, now) == Spread(existing, sanitizeClientPayload(payload))

\* an update that stamps createdAt as well
UpdatedItemRecreated(existing, payload, now) ==
    Spread(Spread(existing, sanitizeClientPayload(payload)), [createdAt |-> now, updatedAt |-> now])

\* an update that removes the fields the body sets to null
UpdatedItemUnsetsNull(existing, payload, now) ==
    LET patch == sanitizeClientPayload(payload)
        merged == Spread(Spread(existing, patch), [updatedAt |-> now]) IN
    Restrict(merged, (DOMAIN merged) \ {k \in DOMAIN patch : patch[k] = "null"})

UpdatedItem(existing, payload, now) ==
    Spread(Spread(existing, sanitizeClientPayload(payload)), [updatedAt |-> now])

\* items.get(id) ?? null
MapLookup(id) == IF MapHas(items, id) THEN Found(MapGet(items, id)) ELSE Absent

\* [...items.values()]
MapValues == List(items)

MemoryGetAll ==
    /\ kind = "memory"
    /\ last' = Call("getAll", 0, NonObject, MapValues)
    /\ UNCHANGED <<aux, kind, items, disk, rows, docs, validator, used, clock, tasks>>

MemoryGetById ==
    /\ kind = "memory"
    /\ \E id \in LookupIds :
         last' = Call("getById", id, NonObject, MapLookup(id))
    /\ UNCHANGED <<aux, kind, items, disk, rows, docs, validator, used, clock, tasks>>

MemoryCreate ==
    /\ kind = "memory"
    /\ \E payload \in Payloads(kind), now \in nowIso(clock), id \in randomUUID(used) :
         LET item == NewItem(id, now, payload) IN
         /\ items' = MapSet(items, item)
         /\ used' = used \cup {id}
         /\ clock' = now
         /\ last' = Call("create", 0, payload, Found(item))
    /\ UNCHANGED <<aux, kind, disk, rows, docs, validator, tasks>>

MemoryUpdate ==
    /\ kind = "memory"
    /\ \E id \in LookupIds, payload \in Payloads(kind) :
         IF ~MapHas(items, id)
         THEN /\ last' = Call("update", id, payload, Absent)
              /\ UNCHANGED <<items, clock>>
         ELSE \E now \in nowIso(clock) :
                LET updated == UpdatedItem(MapGet(items, id), payload, now) IN
                /\ items' = MapSet(items, updated)
                /\ clock' = now
                /\ last' = Call("update", id, payload, Found(updated))
    /\ UNCHANGED <<aux, kind, disk, rows, docs, validator, used, tasks>>

MemoryDelete ==
    /\ kind = "memory"
    /\ \E id \in LookupIds :
         /\ items' = MapDelete(items, id)
         /\ last' = Call("delete", id, NonObject, Bool(MapHas(items, id)))
    /\ UNCHANGED <<aux, kind, disk, rows, docs, validator, used, clock, tasks>>

(***************************************************************************)
(* JSON file store: the same Map, rewritten to the file on every mutation  *)
(***************************************************************************)
\* a rewrite that misses the newest record of the index
PersistedWithoutNewest(m) == [exists |-> TRUE, items |-> SubSeq(m, 1, Len(m) - 1)]

\* JSON.stringify of { items: [...] }, and what JSON.parse reads back
PersistedCrudData(m) == [exists |-> TRUE, items |-> m]

\* writeFileSync(tempPath) then renameSync(tempPath, filePath)
atomicWriteJson(data) == data

flush(m) == atomicWriteJson(PersistedCrudData(m))

FileGetAll ==
    /\ kind = "json"
    /\ last' = Call("getAll", 0, NonObject, MapValues)
    /\ UNCHANGED <<aux, kind, items, disk, rows, docs, validator, used, clock, tasks>>

FileGetById ==
    /\ kind = "json"
    /\ \E id \in LookupIds :
         last' = Call("getById", id, NonObject, MapLookup(id))
    /\ UNCHANGED <<aux, kind, items, disk, rows, docs, validator, used, clock, tasks>>

FileCreate ==
    /\ kind = "json"
    /\ \E payload \in Payloads(kind), now \in nowIso(clock), id \in randomUUID(used) :
         LET item == NewItem(id, now, payload) IN
         /\ items' = MapSet(items, item)
         /\ disk' = flush(items')
         /\ used' = used \cup {id}
         /\ clock' = now
         /\ last' = Call("create", 0, payload, Found(item))
    /\ UNCHANGED <<aux, kind, rows, docs, validator, tasks>>

FileUpdate ==
    /\ kind = "json"
    /\ \E id \in LookupIds, payload \in Payloads(kind) :
         IF ~MapHas(items, id)
         THEN /\ last' = Call("update", id, payload, Absent)
              /\ UNCHANGED <<items, disk, clock>>
         ELSE \E now \in nowIso(clock) :
                LET updated == UpdatedItem(MapGet(items, id), payload, now) IN
                /\ items' = MapSet(items, updated)
                /\ disk' = flush(items')
                /\ clock' = now
                /\ last' = Call("update", id, payload, Found(updated))
    /\ UNCHANGED <<aux, kind, rows, docs, validator, used, tasks>>

FileDelete ==
    /\ kind = "json"
    /\ \E id \in LookupIds :
         LET didDelete == MapHas(items, id) IN
         /\ items' = MapDelete(items, id)
         /\ disk' = IF didDelete THEN flush(items') ELSE disk
         /\ last' = Call("delete", id, NonObject, Bool(didDelete))
    /\ UNCHANGED <<aux, kind, rows, docs, validator, used, clock, tasks>>

(***************************************************************************)
(* Postgres adapter: rows (id, created_at, updated_at, data jsonb)         *)
(***************************************************************************)
\* ORDER BY id DESC
RECURSIVE SortDesc(_)
SortDesc(S) ==
    IF S = {} THEN <<>>
    ELSE LET greatest == CHOOSE x \in S : \A y \in S : y <= x
         IN <<greatest>> \o SortDesc(S \ {greatest})

RECURSIVE SortAsc(_)
SortAsc(S) ==
    IF S = {} THEN <<>>
    ELSE LET least == CHOOSE x \in S : \A y \in S : x <= y
         IN <<least>> \o SortAsc(S \ {least})

rowToCrudItem(row) ==
    Spread([id |-> row.id, createdAt |-> row.created_at, updatedAt |-> row.updated_at],
           row.data)

RowById(id) == CHOOSE r \in rows : r.id = id

\* INSERT INTO t (id, data) VALUES ($1, $2::jsonb): both timestamps default to NOW()
InsertRow(id, data, now) == [id |-> id, created_at |-> now, updated_at |-> now, data |-> data]

\* a row update that writes one key of the patch per statement
UpdateRowTorn(row, patch, now) ==
    IF DOMAIN patch = {} THEN [row EXCEPT !.updated_at = now]
    ELSE LET k == CHOOSE key \in DOMAIN patch : TRUE IN
         [row EXCEPT !.data = Spread(row.data, Restrict(patch, {k})), !.updated_at = now]

\* SET data = COALESCE(data, '{}') || $2::jsonb, updated_at = NOW()
UpdateRow(row, patch, now) ==
    [row EXCEPT !.data = Spread(row.data, patch), !.updated_at = now]

\* SELECT ... ORDER BY id ASC
SelectAll ==
    LET ids == SortAsc({r.id : r \in rows}) IN
    List([i \in 1..Len(ids) |-> rowToCrudItem(RowById(ids[i]))])

\* SELECT ... WHERE id = $1
SelectById(id) ==
    IF \E r \in rows : r.id = id THEN Found(rowToCrudItem(RowById(id))) ELSE Absent

PgGetAll ==
    /\ kind = "postgres"
    /\ last' = Call("getAll", 0, NonObject, SelectAll)
    /\ UNCHANGED <<aux, kind, items, disk, rows, docs, validator, used, clock, tasks>>

PgGetById ==
    /\ kind = "postgres"
    /\ \E id \in LookupIds :
         last' = Call("getById", id, NonObject, SelectById(id))
    /\ UNCHANGED <<aux, kind, items, disk, rows, docs, validator, used, clock, tasks>>

PgCreate ==
    /\ kind = "postgres"
    /\ \E payload \in Payloads(kind), now \in nowIso(clock), id \in randomUUID(used) :
         LET row == InsertRow(id, sanitizeClientPayload(payload), now) IN
         /\ rows' = rows \cup {row}
         /\ used' = used \cup {id}
         /\ clock' = now
         /\ last' = Call("create", 0, payload, Found(rowToCrudItem(row)))
    /\ UNCHANGED <<aux, kind, items, disk, docs, validator, tasks>>

PgUpdate ==
    /\ kind = "postgres"
    /\ \E id \in LookupIds, payload \in Payloads(kind) :
         IF \E r \in rows : r.id = id
         THEN \E now \in nowIso(clock) :
                LET row == UpdateRow(RowById(id), sanitizeClientPayload(payload), now) IN
                /\ rows' = (rows \ {RowById(id)}) \cup {row}
                /\ clock' = now
                /\ last' = Call("update", id, payload, Found(rowToCrudItem(row)))
         ELSE /\ last' = Call("update", id, payload, Absent)
              /\ UNCHANGED <<rows, clock>>
    /\ UNCHANGED <<aux, kind, items, disk, docs, validator, used, tasks>>

PgDelete ==
    /\ kind = "postgres"
    /\ \E id \in LookupIds :
         /\ rows' = {r \in rows : r.id # id}
         /\ last' = Call("delete", id, NonObject, Bool(\E r \in rows : r.id = id))
    /\ UNCHANGED <<aux, kind, items, disk, docs, validator, used, clock, tasks>>

(***************************************************************************)
(* MongoDB adapter: documents { _id, createdAt, updatedAt, ...fields }     *)
(***************************************************************************)
ObjectId(n) == <<"ObjectId", n>>

NoObjectId == <<"null">>

toHexString(oid) == oid[2]

\* new ObjectId(raw) throws unless raw is 24 hex characters
tryParseObjectId(raw) == IF raw \in IdPool THEN ObjectId(raw) ELSE NoObjectId

buildLookup(id) == [_id |-> tryParseObjectId(id)]

DocKeys == {"_id", "createdAt", "updatedAt"}

\* a patch that sets null like any other value
splitNullAsValue(payload) ==
    LET raw == sanitizeClientPayload(payload) IN
    [set |-> Restrict(raw, SchemaKeys), unset |-> {}]

splitStructuredPatch(payload) ==
    LET raw == sanitizeClientPayload(payload) IN
    [set   |-> Restrict(raw, {k \in SchemaKeys \cap DOMAIN raw : raw[k] # "null"}),
     unset |-> {k \in SchemaKeys \cap DOMAIN raw : raw[k] = "null"}]

\* an insert that copies every field of the body
pickEveryField(payload) == sanitizeClientPayload(payload)

pickStructuredInsert(payload) ==
    LET raw == sanitizeClientPayload(payload) IN
    Restrict(raw, {k \in SchemaKeys \cap DOMAIN raw : raw[k] # "null"})

schemaToJsonSchema ==
    [required   |-> DocKeys \cup {k \in SchemaKeys : ~schema[k].isOptional},
     properties |-> [k \in SchemaKeys |-> schema[k].type]]

\* the server's check of a document against the collection's $jsonSchema
Validates(doc) ==
    /\ schemaToJsonSchema.required \subseteq DOMAIN doc
    /\ \A k \in SchemaKeys \cap DOMAIN doc : TypeOf(doc[k]) = schemaToJsonSchema.properties[k]

docToCrudItem(doc) ==
    Spread([id |-> toHexString(doc["_id"]),
            createdAt |-> doc["createdAt"],
            updatedAt |-> doc["updatedAt"]],
           Restrict(doc, (DOMAIN doc) \ DocKeys))

DocMatches(lookup) == {d \in docs : d["_id"] = lookup["_id"]}

FindOne(lookup) == CHOOSE d \in docs : d["_id"] = lookup["_id"]

\* { $set: {...set, updatedAt: now}, $unset: unset }
ApplyUpdate(doc, set, unset, now) ==
    LET assigned == Spread(doc, Spread(set, [updatedAt |-> now])) IN
    Restrict(assigned, (DOMAIN assigned) \ unset)

\* validationLevel "moderate": inserts are checked, and updates of documents
\* that fulfil the validator
RejectsInsert(doc) == validator /\ ~Validates(doc)

RejectsUpdate(old, new) == validator /\ Validates(old) /\ ~Validates(new)

\* find({}).sort({ _id: 1 })
FindAll ==
    LET ids == SortAsc({toHexString(d["_id"]) : d \in docs}) IN
    List([i \in 1..Len(ids) |-> docToCrudItem(FindOne(buildLookup(ids[i])))])

\* a lookup that hands the failure to parse the id on to its caller
FindByIdUnguarded(id) ==
    LET lookup == buildLookup(id) IN
    IF lookup["_id"] = NoObjectId THEN Thrown
    ELSE IF DocMatches(lookup) = {} THEN Absent
    ELSE Found(docToCrudItem(FindOne(lookup)))

\* an id that does not parse is treated as not found; otherwise findOne
FindById(id) ==
    LET lookup == buildLookup(id) IN
    IF lookup["_id"] = NoObjectId THEN Absent
    ELSE IF DocMatches(lookup) = {} THEN Absent
    ELSE Found(docToCrudItem(FindOne(lookup)))

MongoGetAll ==
    /\ kind = "mongodb"
    /\ last' = Call("getAll", 0, NonObject, FindAll)
    /\ UNCHANGED <<aux, kind, items, disk, rows, docs, validator, used, clock, tasks>>

MongoGetById ==
    /\ kind = "mongodb"
    /\ \E id \in LookupIds :
         last' = Call("getById", id, NonObject, FindById(id))
    /\ UNCHANGED <<aux, kind, items, disk, rows, docs, validator, used, clock, tasks>>

MongoCreate ==
    /\ kind = "mongodb"
    /\ \E payload \in Payloads(kind), timestamp \in nowIso(clock), n \in randomUUID(used) :
         LET doc == Spread([_id |-> ObjectId(n), createdAt |-> timestamp, updatedAt |-> timestamp],
                           pickStructuredInsert(payload)) IN
         /\ used' = used \cup {n}
         /\ clock' = timestamp
         /\ IF RejectsInsert(doc)
            THEN /\ docs' = docs
                 /\ last' = Call("create", 0, payload, Thrown)
            ELSE /\ docs' = docs \cup {doc}
                 /\ last' = Call("create", 0, payload, Found(docToCrudItem(doc)))
    /\ UNCHANGED <<aux, kind, items, disk, rows, validator, tasks>>

MongoUpdate ==
    /\ kind = "mongodb"
    /\ \E id \in LookupIds, payload \in Payloads(kind) :
         LET lookup == buildLookup(id) IN
         IF lookup["_id"] = NoObjectId
         THEN /\ last' = Call("update", id, payload, Absent)
              /\ UNCHANGED <<docs, clock>>
         ELSE \E now \in nowIso(clock) :
                LET patch == splitStructuredPatch(payload) IN
                /\ clock' = now
                /\ IF DocMatches(lookup) = {}
                   THEN /\ docs' = docs
                        /\ last' = Call("update", id, payload, Absent)
                   ELSE LET old == FindOne(lookup)
                            new == ApplyUpdate(old, patch.set, patch.unset, now) IN
                        IF RejectsUpdate(old, new)
                        THEN /\ docs' = docs
                             /\ last' = Call("update", id, payload, Thrown)
                        ELSE /\ docs' = (docs \ {old}) \cup {new}
                             /\ last' = Call("update", id, payload, Found(docToCrudItem(new)))
    /\ UNCHANGED <<aux, kind, items, disk, rows, validator, used, tasks>>

MongoDelete ==
    /\ kind = "mongodb"
    /\ \E id \in LookupIds :
         LET lookup == buildLookup(id) IN
         /\ docs' = IF lookup["_id"] = NoObjectId THEN docs ELSE docs \ DocMatches(lookup)
         /\ last' = Call("delete", id, NonObject,
                         Bool(lookup["_id"] # NoObjectId /\ DocMatches(lookup) # {}))
    /\ UNCHANGED <<aux, kind, items, disk, rows, validator, used, clock, tasks>>

(***************************************************************************)
(* The CrudStore of the selected adapter, as its caller sees it            *)
(***************************************************************************)
getById(id) ==
    CASE kind = "postgres" -> SelectById(id)
      [] kind = "mongodb"  -> FindById(id)
      [] OTHER             -> MapLookup(id)

getAll ==
    CASE kind = "postgres" -> SelectAll
      [] kind = "mongodb"  -> FindAll
      [] OTHER             -> MapValues

(***************************************************************************)
(* The file store's process: its files next to the entity's file, and the  *)
(* rewrite it is carrying out                                              *)
(***************************************************************************)
NoFile == [exists |-> FALSE, items |-> <<>>]

\* pc: "down" no process, "idle" between two calls, "flush" inside flush();
\* todo: the steps of the rewrite still to run; part: the file being written
\* is partly written; prev / next: the entity file's content before the
\* rewrite and the document being written; call: the call to complete
Proc(pc, todo, part, prev, next, call) ==
    [pc |-> pc, todo |-> todo, part |-> part, prev |-> prev, next |-> next, call |-> call]

IdleProc(file) == Proc("idle", <<>>, FALSE, file, file, NoCall)

FileInit ==
    /\ temp = NoFile
    /\ aside = {}
    /\ proc = IdleProc(NoFile)

\* memo: the bootstrap whose promise is cached for the entity (0: none);
\* state, todo: each bootstrap's promise and its steps still to run;
\* exists: the table / collection exists on the server
BootIdle ==
    [memo |-> 0,
     state |-> [a \in 1..MaxAttempts |-> "unused"],
     todo |-> [a \in 1..MaxAttempts |-> <<>>],
     exists |-> FALSE]

BootInit == boot = BootIdle

\* schema, model: cfg.schema and model.name; store: what getCrudStore did;
\* fullName: the quoted names the store's statements use; ready: the table
\* is bootstrapped; issued: the statements sent so far
SqlIdle ==
    [schema |-> <<"undefined">>, model |-> <<>>, store |-> "none", fullName |-> <<>>,
     ready |-> FALSE, issued |-> {}]

\* createDbAdapter has not been called
\* no connection settings handed to an adapter
NoCfg == [connectionString |-> "undefined", dbName |-> "undefined"]

NotCalled == [tag |-> "none", setting |-> "", sources |-> {}, cfg |-> NoCfg]

NoFactory ==
    [adapter |-> "undefined", connectionString |-> "undefined", envUrl |-> "undefined",
     dbName |-> "undefined", envDb |-> "undefined", out |-> NotCalled]

ConfInit == sql = SqlIdle /\ factory = NoFactory

\* the entities (models) an adapter is asked for
Entities == {"e1", "e2"}

\* the pools / clients (for Memory and File: the stores) an adapter constructs
Pools == 1..MaxPools

\* conn: the pool / client reference (0: null); db: MongoDB's db is set;
\* made: connections constructed; ends: end() / close() calls per connection;
\* memo: tableReady / collectionCache, the bootstrap cached per entity (0:
\* no entry); bs: the bootstraps started; stores: Memory / File stores Map
LifeIdle ==
    [conn |-> 0, db |-> FALSE, made |-> 0, ends |-> [p \in Pools |-> 0],
     memo |-> [e \in Entities |-> 0],
     bs |-> [b \in 1..MaxAttempts |-> [e |-> "none", conn |-> 0, pc |-> "unused"]],
     stores |-> [e \in Entities |-> 0]]

LifeInit == life = LifeIdle

\* no store call is under way
FailIdle == [pc |-> "idle"]

\* no request is being served
HttpIdle == [pc |-> "idle"]

\* createApp has not been called
AppIdle == [pc |-> "idle"]

MoreInit == fail = FailIdle /\ http = HttpIdle /\ app = AppIdle

\* client / db: the references (0: null; db holds the client it came from);
\* made: clients constructed; state: what client.connect() did; closes:
\* close() calls per client; cache: collectionCache; bs: the bootstraps
MongoIdle ==
    [seq |-> TRUE, client |-> 0, db |-> 0, made |-> 0, state |-> [p \in Pools |-> "none"],
     closes |-> [p \in Pools |-> 0], cache |-> [e \in Entities |-> 0],
     bs |-> [b \in 1..MaxAttempts |-> [e |-> "none", mine |-> 0, got |-> 0, pc |-> "unused",
                                       evicted |-> 0]]]

\* an empty memory store that has not been called
TwinIdle == [items |-> <<>>, res |-> NoResult]

\* no model is registered
IsoIdle == [pc |-> "idle"]

LateInit == mongo = MongoIdle /\ twin = TwinIdle /\ iso = IsoIdle

AuxInit == FileInit /\ BootInit /\ ConfInit /\ LifeInit /\ MoreInit /\ LateInit

(***************************************************************************)
(* Specification: one adapter per process, store calls one after another   *)
(***************************************************************************)
Init ==
    /\ kind \in Backends
    /\ items = <<>>
    /\ disk = [exists |-> FALSE, items |-> <<>>]
    /\ rows = {}
    /\ docs = {}
    /\ validator \in (IF kind = "mongodb" THEN BOOLEAN ELSE {FALSE})
    /\ used = {}
    /\ clock = 1
    /\ last = NoCall
    /\ AuxInit
    /\ tasks = [t \in Tasks |-> IdleTask]

Next ==
    \/ MemoryGetAll
    \/ MemoryGetById
    \/ MemoryCreate
    \/ MemoryUpdate
    \/ MemoryDelete
    \/ FileGetAll
    \/ FileGetById
    \/ FileCreate
    \/ FileUpdate
    \/ FileDelete
    \/ PgGetAll
    \/ PgGetById
    \/ PgCreate
    \/ PgUpdate
    \/ PgDelete
    \/ MongoGetAll
    \/ MongoGetById
    \/ MongoCreate
    \/ MongoUpdate
    \/ MongoDelete

Spec == Init /\ [][Next]_vars

(***************************************************************************)
(* Concurrent requests: MaxTasks create calls against one entity's store,  *)
(* interleaved at their awaits.  The memory and file stores have no await  *)
(* inside create; the adapters await the bootstrap, the pool and the query.*)
(***************************************************************************)
MemoryCreateCall(t) ==
    /\ kind = "memory"
    /\ tasks[t].pc = "start"
    /\ \E now \in nowIso(clock), id \in randomUUID(used) :
         LET item == NewItem(id, now, tasks[t].payload) IN
         /\ items' = MapSet(items, item)
         /\ used' = used \cup {id}
         /\ clock' = now
         /\ tasks' = [tasks EXCEPT ![t] = Task("done", @.payload, id, Found(item))]
    /\ UNCHANGED <<aux, kind, disk, rows, docs, validator, last>>

FileCreateCall(t) ==
    /\ kind = "json"
    /\ tasks[t].pc = "start"
    /\ \E now \in nowIso(clock), id \in randomUUID(used) :
         LET item == NewItem(id, now, tasks[t].payload) IN
         /\ items' = MapSet(items, item)
         /\ disk' = flush(items')
         /\ used' = used \cup {id}
         /\ clock' = now
         /\ tasks' = [tasks EXCEPT ![t] = Task("done", @.payload, id, Found(item))]
    /\ UNCHANGED <<aux, kind, rows, docs, validator, last>>

\* await ready() resolves; the body is sanitized and the id generated
PgCreateReady(t) ==
    /\ kind = "postgres"
    /\ tasks[t].pc = "start"
    /\ \E id \in randomUUID(used) :
         /\ used' = used \cup {id}
         /\ tasks' = [tasks EXCEPT ![t] = Task("pool", @.payload, id, NoResult)]
    /\ UNCHANGED <<aux, kind, items, disk, rows, docs, validator, clock, last>>

\* await getPool() resolves; the INSERT is sent
PgCreateQuery(t) ==
    /\ kind = "postgres"
    /\ tasks[t].pc = "pool"
    /\ tasks' = [tasks EXCEPT ![t].pc = "query"]
    /\ UNCHANGED <<aux, kind, items, disk, rows, docs, validator, used, clock, last>>

\* the server runs the INSERT ... RETURNING; a second row with the id of an
\* existing one violates the primary key
PgCreateInsert(t) ==
    /\ kind = "postgres"
    /\ tasks[t].pc = "query"
    /\ \E now \in nowIso(clock) :
         LET row == InsertRow(tasks[t].id, sanitizeClientPayload(tasks[t].payload), now) IN
         /\ clock' = now
         /\ IF \E r \in rows : r.id = row.id
            THEN /\ rows' = rows
                 /\ tasks' = [tasks EXCEPT ![t].pc = "inserted", ![t].res = Thrown]
            ELSE /\ rows' = rows \cup {row}
                 /\ tasks' = [tasks EXCEPT ![t].pc = "inserted",
                                           ![t].res = Found(rowToCrudItem(row))]
    /\ UNCHANGED <<aux, kind, items, disk, docs, validator, used, last>>

\* await pool.query() resolves; create returns
PgCreateReturn(t) ==
    /\ kind = "postgres"
    /\ tasks[t].pc = "inserted"
    /\ tasks' = [tasks EXCEPT ![t].pc = "done"]
    /\ UNCHANGED <<aux, kind, items, disk, rows, docs, validator, used, clock, last>>

\* await collection() resolves; the document is built and insertOne is sent
MongoCreateCollection(t) ==
    /\ kind = "mongodb"
    /\ tasks[t].pc = "start"
    /\ \E timestamp \in nowIso(clock), n \in randomUUID(used) :
         LET doc == Spread([_id |-> ObjectId(n), createdAt |-> timestamp, updatedAt |-> timestamp],
                           pickStructuredInsert(tasks[t].payload)) IN
         /\ used' = used \cup {n}
         /\ clock' = timestamp
         /\ tasks' = [tasks EXCEPT ![t] = Task("insert", @.payload, n, Found(doc))]
    /\ UNCHANGED <<aux, kind, items, disk, rows, docs, validator, last>>

\* the server runs insertOne
MongoCreateInsert(t) ==
    /\ kind = "mongodb"
    /\ tasks[t].pc = "insert"
    /\ LET doc == tasks[t].res.val IN
       IF RejectsInsert(doc) \/ DocMatches(doc) # {}
       THEN /\ docs' = docs
            /\ tasks' = [tasks EXCEPT ![t].pc = "inserted", ![t].res = Thrown]
       ELSE /\ docs' = docs \cup {doc}
            /\ tasks' = [tasks EXCEPT ![t].pc = "inserted",
                                      ![t].res = Found(docToCrudItem(doc))]
    /\ UNCHANGED <<aux, kind, items, disk, rows, validator, used, clock, last>>

\* await insertOne() resolves; create returns
MongoCreateReturn(t) ==
    /\ kind = "mongodb"
    /\ tasks[t].pc = "inserted"
    /\ tasks' = [tasks EXCEPT ![t].pc = "done"]
    /\ UNCHANGED <<aux, kind, items, disk, rows, docs, validator, used, clock, last>>

InitConc ==
    /\ kind \in Backends
    /\ items = <<>>
    /\ disk = [exists |-> FALSE, items |-> <<>>]
    /\ rows = {}
    /\ docs = {}
    /\ validator \in (IF kind = "mongodb" THEN BOOLEAN ELSE {FALSE})
    /\ used = {}
    /\ clock = 1
    /\ last = NoCall
    /\ AuxInit
    /\ tasks \in [Tasks -> {Task("start", payload, 0, NoResult) : payload \in Payloads(kind)}]

NextConc ==
    \E t \in Tasks :
        \/ MemoryCreateCall(t)
        \/ FileCreateCall(t)
        \/ PgCreateReady(t)
        \/ PgCreateQuery(t)
        \/ PgCreateInsert(t)
        \/ PgCreateReturn(t)
        \/ MongoCreateCollection(t)
        \/ MongoCreateInsert(t)
        \/ MongoCreateReturn(t)

SpecConc == InitConc /\ [][NextConc]_vars

(***************************************************************************)
(* Concurrent calls on one entity's store: one create and MaxJobs - 1      *)
(* update / delete / getById calls aimed at ids, interleaved at their      *)
(* awaits.  The memory and file stores run a whole call between two        *)
(* awaits; the adapters await the bootstrap, the pool and the statement,   *)
(* and the server runs one statement at a time.                            *)
(***************************************************************************)
Jobs == 1..MaxJobs

\* a store call in flight: the operation, where it stands, its arguments, the
\* timestamp it took before sending (MongoDB update) and its result
Job(op, pc, id, payload, at, res) ==
    [op |-> op, pc |-> pc, id |-> id, payload |-> payload, at |-> at, res |-> res]

\* the body of the create
RaceBody == Obj(Spread(ClientReserved, [a |-> "n1", b |-> "n1", x |-> "n1"]))

\* the bodies of the updates: each writes two fields
RacePatches == { Obj([a |-> "n2", b |-> "n2"]), Obj([a |-> "n1", b |-> "null"]) }

RaceCalls ==
    {Job("update", "start", id, payload, 0, NoResult) : id \in IdPool, payload \in RacePatches}
    \cup {Job("delete", "start", id, NonObject, 0, NoResult) : id \in IdPool}
    \cup {Job("getById", "start", id, NonObject, 0, NoResult) : id \in IdPool}

\* no await between the first and the last line of a memory store call
MemoryCall(j) ==
    /\ kind = "memory"
    /\ tasks[j].pc = "start"
    /\ LET call == tasks[j] IN
       CASE call.op = "create" ->
              \E now \in nowIso(clock), id \in randomUUID(used) :
                LET item == NewItem(id, now, call.payload) IN
                /\ items' = MapSet(items, item)
                /\ used' = used \cup {id}
                /\ clock' = now
                /\ tasks' = [tasks EXCEPT ![j].pc = "done", ![j].id = id, ![j].res = Found(item)]
         [] call.op = "update" ->
              IF ~MapHas(items, call.id)
              THEN /\ tasks' = [tasks EXCEPT ![j].pc = "done", ![j].res = Absent]
                   /\ UNCHANGED <<items, used, clock>>
              ELSE \E now \in nowIso(clock) :
                     LET updated == UpdatedItem(MapGet(items, call.id), call.payload, now) IN
                     /\ items' = MapSet(items, updated)
                     /\ clock' = now
                     /\ tasks' = [tasks EXCEPT ![j].pc = "done", ![j].res = Found(updated)]
                     /\ UNCHANGED used
         [] call.op = "delete" ->
              /\ items' = MapDelete(items, call.id)
              /\ tasks' = [tasks EXCEPT ![j].pc = "done", ![j].res = Bool(MapHas(items, call.id))]
              /\ UNCHANGED <<used, clock>>
         [] call.op = "getById" ->
              /\ tasks' = [tasks EXCEPT ![j].pc = "done", ![j].res = MapLookup(call.id)]
              /\ UNCHANGED <<items, used, clock>>
    /\ UNCHANGED <<aux, kind, disk, rows, docs, validator, last>>

\* the file store: the same, with the synchronous rewrite of the file
FileCall(j) ==
    /\ kind = "json"
    /\ tasks[j].pc = "start"
    /\ LET call == tasks[j] IN
       CASE call.op = "create" ->
              \E now \in nowIso(clock), id \in randomUUID(used) :
                LET item == NewItem(id, now, call.payload) IN
                /\ items' = MapSet(items, item)
                /\ disk' = flush(items')
                /\ used' = used \cup {id}
                /\ clock' = now
                /\ tasks' = [tasks EXCEPT ![j].pc = "done", ![j].id = id, ![j].res = Found(item)]
         [] call.op = "update" ->
              IF ~MapHas(items, call.id)
              THEN /\ tasks' = [tasks EXCEPT ![j].pc = "done", ![j].res = Absent]
                   /\ UNCHANGED <<items, disk, used, clock>>
              ELSE \E now \in nowIso(clock) :
                     LET updated == UpdatedItem(MapGet(items, call.id), call.payload, now) IN
                     /\ items' = MapSet(items, updated)
                     /\ disk' = flush(items')
                     /\ clock' = now
                     /\ tasks' = [tasks EXCEPT ![j].pc = "done", ![j].res = Found(updated)]
                     /\ UNCHANGED used
         [] call.op = "delete" ->
              LET didDelete == MapHas(items, call.id) IN
              /\ items' = MapDelete(items, call.id)
              /\ disk' = IF didDelete THEN flush(items') ELSE disk
              /\ tasks' = [tasks EXCEPT ![j].pc = "done", ![j].res = Bool(didDelete)]
              /\ UNCHANGED <<used, clock>>
         [] call.op = "getById" ->
              /\ tasks' = [tasks EXCEPT ![j].pc = "done", ![j].res = MapLookup(call.id)]
              /\ UNCHANGED <<items, disk, used, clock>>
    /\ UNCHANGED <<aux, kind, rows, docs, validator, last>>

\* await ready() resolves; create generates its id
PgCallReady(j) ==
    /\ kind = "postgres"
    /\ tasks[j].pc = "start"
    /\ IF tasks[j].op = "create"
       THEN \E id \in randomUUID(used) :
              /\ used' = used \cup {id}
              /\ tasks' = [tasks EXCEPT ![j].pc = "pool", ![j].id = id]
       ELSE /\ tasks' = [tasks EXCEPT ![j].pc = "pool"]
            /\ UNCHANGED used
    /\ UNCHANGED <<aux, kind, items, disk, rows, docs, validator, clock, last>>

\* await getPool() resolves; the statement is sent
PgCallQuery(j) ==
    /\ kind = "postgres"
    /\ tasks[j].pc = "pool"
    /\ tasks' = [tasks EXCEPT ![j].pc = "query"]
    /\ UNCHANGED <<aux, kind, items, disk, rows, docs, validator, used, clock, last>>

\* the server runs the call's single statement
PgCallExecute(j) ==
    /\ kind = "postgres"
    /\ tasks[j].pc = "query"
    /\ LET call == tasks[j]
           hit == \E r \in rows : r.id = call.id IN
       CASE call.op = "create" ->
              \E now \in nowIso(clock) :
                LET row == InsertRow(call.id, sanitizeClientPayload(call.payload), now) IN
                /\ clock' = now
                /\ IF hit
                   THEN /\ rows' = rows
                        /\ tasks' = [tasks EXCEPT ![j].pc = "replied", ![j].res = Thrown]
                   ELSE /\ rows' = rows \cup {row}
                        /\ tasks' = [tasks EXCEPT ![j].pc = "replied",
                                                  ![j].res = Found(rowToCrudItem(row))]
         [] call.op = "update" ->
              IF hit
              THEN \E now \in nowIso(clock) :
                     LET row == UpdateRow(RowById(call.id), sanitizeClientPayload(call.payload), now) IN
                     /\ rows' = (rows \ {RowById(call.id)}) \cup {row}
                     /\ clock' = now
                     /\ tasks' = [tasks EXCEPT ![j].pc = "replied",
                                               ![j].res = Found(rowToCrudItem(row))]
              ELSE /\ tasks' = [tasks EXCEPT ![j].pc = "replied", ![j].res = Absent]
                   /\ UNCHANGED <<rows, clock>>
         [] call.op = "delete" ->
              /\ rows' = {r \in rows : r.id # call.id}
              /\ tasks' = [tasks EXCEPT ![j].pc = "replied", ![j].res = Bool(hit)]
              /\ UNCHANGED clock
         [] call.op = "getById" ->
              /\ tasks' = [tasks EXCEPT ![j].pc = "replied", ![j].res = SelectById(call.id)]
              /\ UNCHANGED <<rows, clock>>
    /\ UNCHANGED <<aux, kind, items, disk, docs, validator, used, last>>

\* await pool.query() resolves; the call returns
PgCallReturn(j) ==
    /\ kind = "postgres"
    /\ tasks[j].pc = "replied"
    /\ tasks' = [tasks EXCEPT ![j].pc = "done"]
    /\ UNCHANGED <<aux, kind, items, disk, rows, docs, validator, used, clock, last>>

\* await collection() resolves; the call builds its lookup or its document and
\* sends its command (an update reads the clock before sending)
MongoCallCollection(j) ==
    /\ kind = "mongodb"
    /\ tasks[j].pc = "start"
    /\ LET call == tasks[j]
           lookup == buildLookup(call.id) IN
       CASE call.op = "create" ->
              \E timestamp \in nowIso(clock), n \in randomUUID(used) :
                LET doc == Spread([_id |-> ObjectId(n), createdAt |-> timestamp,
                                   updatedAt |-> timestamp],
                                  pickStructuredInsert(call.payload)) IN
                /\ used' = used \cup {n}
                /\ clock' = timestamp
                /\ tasks' = [tasks EXCEPT ![j].pc = "sent", ![j].id = n, ![j].res = Found(doc)]
         [] call.op = "update" ->
              IF lookup["_id"] = NoObjectId
              THEN /\ tasks' = [tasks EXCEPT ![j].pc = "done", ![j].res = Absent]
                   /\ UNCHANGED <<used, clock>>
              ELSE \E now \in nowIso(clock) :
                     /\ clock' = now
                     /\ tasks' = [tasks EXCEPT ![j].pc = "sent", ![j].at = now]
                     /\ UNCHANGED used
         [] call.op = "delete" ->
              /\ tasks' = IF lookup["_id"] = NoObjectId
                          THEN [tasks EXCEPT ![j].pc = "done", ![j].res = Bool(FALSE)]
                          ELSE [tasks EXCEPT ![j].pc = "sent"]
              /\ UNCHANGED <<used, clock>>
         [] call.op = "getById" ->
              /\ tasks' = IF lookup["_id"] = NoObjectId
                          THEN [tasks EXCEPT ![j].pc = "done", ![j].res = Absent]
                          ELSE [tasks EXCEPT ![j].pc = "sent"]
              /\ UNCHANGED <<used, clock>>
    /\ UNCHANGED <<aux, kind, items, disk, rows, docs, validator, last>>

\* the server runs the call's single command: insertOne, findOneAndUpdate,
\* deleteOne or findOne
MongoCallExecute(j) ==
    /\ kind = "mongodb"
    /\ tasks[j].pc = "sent"
    /\ LET call == tasks[j]
           lookup == buildLookup(call.id) IN
       CASE call.op = "create" ->
              LET doc == call.res.val IN
              IF RejectsInsert(doc) \/ DocMatches(doc) # {}
              THEN /\ docs' = docs
                   /\ tasks' = [tasks EXCEPT ![j].pc = "replied", ![j].res = Thrown]
              ELSE /\ docs' = docs \cup {doc}
                   /\ tasks' = [tasks EXCEPT ![j].pc = "replied",
                                             ![j].res = Found(docToCrudItem(doc))]
         [] call.op = "update" ->
              IF DocMatches(lookup) = {}
              THEN /\ docs' = docs
                   /\ tasks' = [tasks EXCEPT ![j].pc = "replied", ![j].res = Absent]
              ELSE LET patch == splitStructuredPatch(call.payload)
                       old == FindOne(lookup)
                       new == ApplyUpdate(old, patch.set, patch.unset, call.at) IN
                   IF RejectsUpdate(old, new)
                   THEN /\ docs' = docs
                        /\ tasks' = [tasks EXCEPT ![j].pc = "replied", ![j].res = Thrown]
                   ELSE /\ docs' = (docs \ {old}) \cup {new}
                        /\ tasks' = [tasks EXCEPT ![j].pc = "replied",
                                                  ![j].res = Found(docToCrudItem(new))]
         [] call.op = "delete" ->
              /\ docs' = docs \ DocMatches(lookup)
              /\ tasks' = [tasks EXCEPT ![j].pc = "replied",
                                        ![j].res = Bool(DocMatches(lookup) # {})]
         [] call.op = "getById" ->
              /\ docs' = docs
              /\ tasks' = [tasks EXCEPT ![j].pc = "replied", ![j].res = FindById(call.id)]
    /\ UNCHANGED <<aux, kind, items, disk, rows, validator, used, clock, last>>

\* the awaited command resolves; the call returns
MongoCallReturn(j) ==
    /\ kind = "mongodb"
    /\ tasks[j].pc = "replied"
    /\ tasks' = [tasks EXCEPT ![j].pc = "done"]
    /\ UNCHANGED <<aux, kind, items, disk, rows, docs, validator, used, clock, last>>

InitRace ==
    /\ kind \in Backends
    /\ items = <<>>
    /\ disk = [exists |-> FALSE, items |-> <<>>]
    /\ rows = {}
    /\ docs = {}
    /\ validator \in (IF kind = "mongodb" THEN BOOLEAN ELSE {FALSE})
    /\ used = {}
    /\ clock = 1
    /\ last = NoCall
    /\ AuxInit
    /\ tasks \in {f \in [Jobs -> RaceCalls \cup {Job("create", "start", 0, RaceBody, 0, NoResult)}] :
                    \A j \in Jobs : f[j].op = "create" <=> j = 1}

NextRace ==
    \E j \in Jobs :
        \/ MemoryCall(j)
        \/ FileCall(j)
        \/ PgCallReady(j)
        \/ PgCallQuery(j)
        \/ PgCallExecute(j)
        \/ PgCallReturn(j)
        \/ MongoCallCollection(j)
        \/ MongoCallExecute(j)
        \/ MongoCallReturn(j)

SpecRace == InitRace /\ [][NextRace]_vars

(***************************************************************************)
(* The file store over the life of its processes: construction loads the   *)
(* entity's file, a mutation rewrites it step by step, and the process can *)
(* be killed at any step and a new one started on the same path.           *)
(*                                                                         *)
(* File contents                                                           *)
(*   [exists, items]   the text JSON.stringify({ items }) (NoFile: no file)*)
(*   [exists, cut]     a proper prefix of that text                        *)
(*   [exists, text]    text that is no JSON                                *)
(*   [exists, json]    JSON that is no object, or an object whose "items"  *)
(*                     is no array                                         *)
(***************************************************************************)
Truncated(file) == [exists |-> TRUE, cut |-> file.items]

Garbage == [exists |-> TRUE, text |-> "not json"]

ScalarJson == [exists |-> TRUE, json |-> "scalar"]

NoItemsJson == [exists |-> TRUE, json |-> "object"]

\* records found in a file this process did not write: a well-formed one, one
\* without a string id, and a later entry with the id of the first
ForeignItem == [id |-> 1, createdAt |-> 1, updatedAt |-> 1, a |-> "n1"]

BrokenItem == [createdAt |-> 1, updatedAt |-> 1, a |-> "n2"]

ForeignItemAgain == [id |-> 1, createdAt |-> 1, updatedAt |-> 1, a |-> "n2"]

ForeignFile == [exists |-> TRUE, items |-> <<ForeignItem, BrokenItem, ForeignItemAgain>>]

InitialFiles == {NoFile, Garbage, ScalarJson, NoItemsJson, ForeignFile}

\* JSON.parse(raw) returns
JSONparses(file) == file.exists /\ ("items" \in DOMAIN file \/ "json" \in DOMAIN file)

\* id, createdAt and updatedAt are present and strings
isCrudItem(value) == ReservedKeys \subseteq DOMAIN value

SelectSeqItems(s) == SelectSeq(s, isCrudItem)

\* a Map in which the first entry of an id stays
RECURSIVE MapOfKeepsFirst(_)
MapOfKeepsFirst(s) ==
    IF s = <<>> THEN <<>>
    ELSE LET m == MapOfKeepsFirst(SubSeq(s, 1, Len(s) - 1)) IN
         IF MapHas(m, s[Len(s)]["id"]) THEN m ELSE Append(m, s[Len(s)])

\* new Map(entries): a later entry replaces an earlier one with the same id
RECURSIVE MapOf(_)
MapOf(s) ==
    IF s = <<>> THEN <<>>
    ELSE MapSet(MapOf(SubSeq(s, 1, Len(s) - 1)), s[Len(s)])

\* a loader that leaves a corrupt file where it is
loadLeavesCorrupt(file) ==
    IF ~file.exists \/ ~JSONparses(file) \/ "json" \in DOMAIN file
    THEN [items |-> <<>>, corrupt |-> FALSE]
    ELSE [items |-> SelectSeqItems(file.items), corrupt |-> FALSE]

\* items: the records read; corrupt: the file was no JSON and is renamed aside
loadPersistedData(file) ==
    IF ~file.exists THEN [items |-> <<>>, corrupt |-> FALSE]
    ELSE IF ~JSONparses(file) THEN [items |-> <<>>, corrupt |-> TRUE]
    ELSE IF "json" \in DOMAIN file THEN [items |-> <<>>, corrupt |-> FALSE]
    ELSE [items |-> SelectSeqItems(file.items), corrupt |-> FALSE]

\* the bodies the store is driven with across restarts: one with client-sent
\* id / timestamps and an undeclared field, and an overwrite of one field
FilePayloads ==
    { Obj(Spread(ClientReserved, [a |-> "n1", b |-> "n1", x |-> "n1"])),
      Obj([b |-> "n2"]) }

\* a rewrite that writes the entity's file in place
writeInPlaceSteps == <<"writeTarget">>

\* atomicWriteJson: writeFileSync(tempPath, json), renameSync(tempPath, filePath)
atomicWriteJsonSteps == <<"writeTemp", "rename">>

\* const persisted = loadPersistedData(filePath); const items = new Map(...)
createJsonFileStore ==
    /\ kind = "json"
    /\ proc.pc = "down"
    /\ LET persisted == loadPersistedData(disk) IN
       /\ items' = MapOf(persisted.items)
       /\ IF persisted.corrupt
          THEN \E now \in nowIso(clock) :
                 /\ clock' = now
                 /\ aside' = {a \in aside : a.suffix # now} \cup {[suffix |-> now, file |-> disk]}
                 /\ disk' = NoFile
          ELSE UNCHANGED <<clock, aside, disk>>
       /\ proc' = IdleProc(disk')
       /\ last' = Call("construct", 0, NonObject, List(items'))
    /\ UNCHANGED <<lateVars, bootVars, confVars, lifeVars, moreVars, kind, rows, docs, validator, used, tasks, temp>>

\* getAll / getById: the index only
FileRead ==
    /\ kind = "json"
    /\ proc.pc = "idle"
    /\ \/ last' = Call("getAll", 0, NonObject, MapValues)
       \/ \E id \in LookupIds : last' = Call("getById", id, NonObject, MapLookup(id))
    /\ UNCHANGED <<lateVars, bootVars, confVars, lifeVars, moreVars, kind, items, disk, rows, docs, validator, used, clock, tasks, temp, aside, proc>>

\* create / update / delete up to the call of flush(): the index is updated;
\* update and delete of an id that is not there return without flush
FileMutate ==
    /\ kind = "json"
    /\ proc.pc = "idle"
    /\ \/ \E payload \in FilePayloads, now \in nowIso(clock), id \in randomUUID(used) :
            LET item == NewItem(id, now, payload) IN
            /\ items' = MapSet(items, item)
            /\ used' = used \cup {id}
            /\ clock' = now
            /\ proc' = Proc("flush", atomicWriteJsonSteps, FALSE, disk, flush(items'),
                            Call("create", 0, payload, Found(item)))
            /\ UNCHANGED last
       \/ \E id \in LookupIds, payload \in FilePayloads :
            IF ~MapHas(items, id)
            THEN /\ last' = Call("update", id, payload, Absent)
                 /\ UNCHANGED <<items, used, clock, proc>>
            ELSE \E now \in nowIso(clock) :
                   LET updated == UpdatedItem(MapGet(items, id), payload, now) IN
                   /\ items' = MapSet(items, updated)
                   /\ clock' = now
                   /\ proc' = Proc("flush", atomicWriteJsonSteps, FALSE, disk, flush(items'),
                                   Call("update", id, payload, Found(updated)))
                   /\ UNCHANGED <<used, last>>
       \/ \E id \in LookupIds :
            IF ~MapHas(items, id)
            THEN /\ last' = Call("delete", id, NonObject, Bool(FALSE))
                 /\ UNCHANGED <<items, used, clock, proc>>
            ELSE /\ items' = MapDelete(items, id)
                 /\ proc' = Proc("flush", atomicWriteJsonSteps, FALSE, disk, flush(items'),
                                 Call("delete", id, NonObject, Bool(TRUE)))
                 /\ UNCHANGED <<used, clock, last>>
    /\ UNCHANGED <<lateVars, bootVars, confVars, lifeVars, moreVars, kind, disk, rows, docs, validator, tasks, temp, aside>>

\* the state of the process after one step of the rewrite: flush() returns
\* after the last one and the call completes
AfterStep(file) ==
    IF Len(proc.todo) = 1 THEN IdleProc(file)
    ELSE [proc EXCEPT !.todo = Tail(@), !.part = FALSE]

\* fs.writeFileSync(path, json): the file is first partly, then fully written
FileWriteStep ==
    /\ kind = "json"
    /\ proc.pc = "flush"
    /\ Head(proc.todo) \in {"writeTemp", "writeTarget"}
    /\ LET written == IF proc.part THEN proc.next ELSE Truncated(proc.next) IN
       IF Head(proc.todo) = "writeTemp"
       THEN /\ temp' = written
            /\ disk' = disk
            /\ proc' = IF proc.part THEN AfterStep(disk) ELSE [proc EXCEPT !.part = TRUE]
       ELSE /\ disk' = written
            /\ temp' = temp
            /\ proc' = IF proc.part THEN AfterStep(written) ELSE [proc EXCEPT !.part = TRUE]
    /\ last' = IF proc'.pc = "idle" THEN proc.call ELSE last
    /\ UNCHANGED <<lateVars, bootVars, confVars, lifeVars, moreVars, kind, items, rows, docs, validator, used, clock, tasks, aside>>

\* fs.renameSync(tempPath, filePath)
FileRenameStep ==
    /\ kind = "json"
    /\ proc.pc = "flush"
    /\ Head(proc.todo) = "rename"
    /\ disk' = temp
    /\ temp' = NoFile
    /\ proc' = AfterStep(temp)
    /\ last' = IF proc'.pc = "idle" THEN proc.call ELSE last
    /\ UNCHANGED <<lateVars, bootVars, confVars, lifeVars, moreVars, kind, items, rows, docs, validator, used, clock, tasks, aside>>

\* the process is killed: the index is gone, the files stay as they are
FileCrash ==
    /\ kind = "json"
    /\ proc.pc \in {"idle", "flush"}
    /\ items' = <<>>
    /\ proc' = [proc EXCEPT !.pc = "down", !.todo = <<>>, !.part = FALSE, !.call = NoCall]
    /\ last' = NoCall
    /\ UNCHANGED <<lateVars, bootVars, confVars, lifeVars, moreVars, kind, disk, rows, docs, validator, used, clock, tasks, temp, aside>>

InitFile ==
    /\ kind = "json"
    /\ items = <<>>
    /\ disk \in InitialFiles
    /\ rows = {}
    /\ docs = {}
    /\ validator = FALSE
    /\ used = IF JSONparses(disk) /\ "items" \in DOMAIN disk
              THEN {item["id"] : item \in {disk.items[i] : i \in {n \in 1..Len(disk.items) : isCrudItem(disk.items[n])}}}
              ELSE {}
    /\ clock = 1
    /\ last = NoCall
    /\ tasks = [t \in Tasks |-> IdleTask]
    /\ temp = NoFile
    /\ aside = {}
    /\ proc = Proc("down", <<>>, FALSE, disk, disk, NoCall)
    /\ BootInit
    /\ ConfInit
    /\ LifeInit
    /\ MoreInit
    /\ LateInit

NextFile ==
    \/ createJsonFileStore
    \/ FileRead
    \/ FileMutate
    \/ FileWriteStep
    \/ FileRenameStep
    \/ FileCrash

SpecFile == InitFile /\ [][NextFile]_vars

\* flush() throws: fs.writeFileSync fails to open the temporary file or
\* fs.renameSync fails (no permission, read-only file system); nothing
\* catches it in the store, the call throws, the files stay as they are
FileRewriteFails ==
    /\ kind = "json"
    /\ proc.pc = "flush"
    /\ ~proc.part
    /\ proc' = IdleProc(disk)
    /\ last' = [proc.call EXCEPT !.res = Thrown]
    /\ UNCHANGED <<lateVars, bootVars, confVars, lifeVars, moreVars, kind, items, disk, rows, docs,
                   validator, used, clock, tasks, temp, aside>>

NextFileFail ==
    \/ createJsonFileStore
    \/ FileRead
    \/ FileMutate
    \/ FileWriteStep
    \/ FileRenameStep
    \/ FileRewriteFails

\* the store is constructed where no file is
InitFileFail ==
    /\ InitFile
    /\ disk = NoFile

\* the file store in one process whose rewrites may fail
SpecFileFail == InitFileFail /\ [][NextFileFail]_vars

(***************************************************************************)
(* Bootstrap of an entity's table / collection (Postgres and MongoDB       *)
(* adapters): store calls reach ensureTable / ensureCollection, which      *)
(* returns the promise cached for the entity or starts the bootstrap and   *)
(* caches its promise; the bootstrap runs its steps against the server and *)
(* any of them can fail.                                                   *)
(***************************************************************************)
Attempts == 1..MaxAttempts

\* a store call on its way through ready() / collection(): where it stands,
\* the bootstrap whose promise it awaits, the bootstraps it started
Caller(pc, awaits, boots) == [pc |-> pc, awaits |-> awaits, boots |-> boots]

\* the awaited steps of one bootstrap
BootstrapSteps(k) ==
    IF k = "postgres"
    THEN <<"getPool", "connect", "createSchema", "createTable">>
    ELSE <<"connect", "listCollections", "createCollection", "collMod">>

\* the bootstraps started so far
Started(b) == Cardinality({a \in Attempts : b.state[a] # "unused"})

\* an ensureTable that does not cache the promise it creates
tableReadyNotSet(a) == 0

\* tableReady.set(key, guarded) / collectionCache.set(collectionName, guarded)
tableReadySet(a) == a

\* a failure handler that leaves the rejected promise in the cache
tableReadyKeeps(memo) == memo

\* tableReady.delete(key) / collectionCache.delete(collectionName)
tableReadyDelete(memo) == 0

\* ensureTable(model) / ensureCollection(model), up to its return
ensureTable(j) ==
    /\ kind \in {"postgres", "mongodb"}
    /\ tasks[j].pc = "start"
    /\ IF boot.memo # 0
       THEN /\ tasks' = [tasks EXCEPT ![j] = Caller("await", boot.memo, @.boots)]
            /\ boot' = boot
       ELSE LET a == Started(boot) + 1 IN
            /\ a \in Attempts
            /\ boot' = [boot EXCEPT !.state[a] = "running",
                                    !.todo[a] = BootstrapSteps(kind),
                                    !.memo = tableReadySet(a)]
            /\ tasks' = [tasks EXCEPT ![j] = Caller("await", a, @.boots + 1)]
    /\ UNCHANGED <<lateVars, fileVars, confVars, lifeVars, moreVars, kind, items, disk, rows, docs, validator, used, clock, last>>

\* the awaited step of a running bootstrap succeeds.  listCollections finding
\* the collection skips its creation; the creation with a validator falls
\* back to one without; a collMod that fails is ignored
BootstrapStep(a) ==
    /\ kind \in {"postgres", "mongodb"}
    /\ boot.state[a] = "running"
    /\ LET step == Head(boot.todo[a])
           rest == IF step = "listCollections" /\ boot.exists
                   THEN Tail(Tail(boot.todo[a]))
                   ELSE Tail(boot.todo[a]) IN
       /\ boot' = [boot EXCEPT !.todo[a] = rest,
                               !.state[a] = IF rest = <<>> THEN "resolved" ELSE "running",
                               !.exists = @ \/ step \in {"createTable", "createCollection"}]
       /\ IF step = "createCollection" THEN validator' \in BOOLEAN
          ELSE IF step = "collMod" THEN validator' \in {TRUE, validator}
          ELSE validator' = validator
    /\ UNCHANGED <<lateVars, fileVars, confVars, lifeVars, moreVars, kind, items, disk, rows, docs, used, clock, last, tasks>>

\* the awaited step throws: the promise rejects and its handler runs
BootstrapFails(a) ==
    /\ kind \in {"postgres", "mongodb"}
    /\ boot.state[a] = "running"
    /\ Head(boot.todo[a]) # "collMod"
    /\ boot' = [boot EXCEPT !.state[a] = "rejected",
                            !.todo[a] = <<>>,
                            !.memo = tableReadyDelete(@)]
    /\ UNCHANGED <<lateVars, fileVars, confVars, lifeVars, moreVars, kind, items, disk, rows, docs, validator, used, clock, last, tasks>>

\* await ready() / await collection() settles for one call
AwaitSettles(j) ==
    /\ kind \in {"postgres", "mongodb"}
    /\ tasks[j].pc = "await"
    /\ boot.state[tasks[j].awaits] \in {"resolved", "rejected"}
    /\ tasks' = [tasks EXCEPT ![j].pc = IF boot.state[tasks[j].awaits] = "resolved"
                                        THEN "run" ELSE "rejected"]
    /\ UNCHANGED <<lateVars, fileVars, bootVars, confVars, lifeVars, moreVars, kind, items, disk, rows, docs, validator, used, clock, last>>

\* the call completes (with its result or the bootstrap's error) and the
\* client issues another one on the same store
NextCall(j) ==
    /\ kind \in {"postgres", "mongodb"}
    /\ tasks[j].pc \in {"run", "rejected"}
    /\ tasks' = [tasks EXCEPT ![j] = Caller("start", 0, 0)]
    /\ UNCHANGED <<lateVars, fileVars, bootVars, confVars, lifeVars, moreVars, kind, items, disk, rows, docs, validator, used, clock, last>>

InitBoot ==
    /\ kind \in {"postgres", "mongodb"}
    /\ items = <<>>
    /\ disk = NoFile
    /\ rows = {}
    /\ docs = {}
    /\ used = {}
    /\ clock = 1
    /\ last = NoCall
    /\ tasks = [j \in Jobs |-> Caller("start", 0, 0)]
    /\ FileInit
    /\ ConfInit
    /\ LifeInit
    /\ MoreInit
    /\ LateInit
    /\ boot \in {[BootIdle EXCEPT !.exists = e] : e \in BOOLEAN}
    /\ validator \in (IF kind = "mongodb" /\ boot.exists THEN BOOLEAN ELSE {FALSE})

NextBoot ==
    \/ \E j \in Jobs : ensureTable(j) \/ AwaitSettles(j) \/ NextCall(j)
    \/ \E a \in Attempts : BootstrapStep(a) \/ BootstrapFails(a)

SpecBoot == InitBoot /\ [][NextBoot]_vars

(***************************************************************************)
(* Postgres adapter: the names interpolated into SQL.  A string is a       *)
(* sequence of characters; of the characters only the class matters:       *)
(* "a" "s" "p" ... lower-case letters, "A" an upper-case letter, "1" a     *)
(* digit, "_" the underscore, "-" any other character (dash, quote, blank, *)
(* semicolon, a letter outside ASCII).                                     *)
(***************************************************************************)
LowerCase == {"a", "s", "p", "u", "b", "l", "i", "c"}

UpperCase == {"A"}

Digits == {"1"}

NameChars == {"a", "A", "1", "_", "-"}

RECURSIVE StringsOf(_, _)
StringsOf(chars, n) ==
    IF n = 0 THEN {<<>>}
    ELSE LET shorter == StringsOf(chars, n - 1) IN
         shorter \cup {Append(s, c) : s \in shorter, c \in chars}

\* model.name, and cfg.schema when it is given
Names == StringsOf(NameChars, MaxNameLen)

\* cfg.schema is not given
NoSchema == <<"undefined">>

\* cfg.schema ?? "public"
Public == <<"p", "u", "b", "l", "i", "c">>

toLowerCase(s) == [i \in 1..Len(s) |-> IF s[i] \in UpperCase THEN "a" ELSE s[i]]

\* base.replace(/[^A-Za-z0-9_]/g, "_")
replaceNonWord(s) ==
    [i \in 1..Len(s) |-> IF s[i] \in LowerCase \cup UpperCase \cup Digits \cup {"_"}
                         THEN s[i] ELSE "_"]

modelToTableName(name) == replaceNonWord(toLowerCase(name) \o <<"s">>)

\* an identifier check that lets a leading digit through: /^[A-Za-z0-9_]+$/
safeIdentifierAnyStart(name) ==
    [ok |-> /\ Len(name) >= 1
            /\ \A i \in 1..Len(name) : name[i] \in LowerCase \cup UpperCase \cup Digits \cup {"_"},
     ident |-> <<"\"">> \o name \o <<"\"">>]

\* /^[A-Za-z_][A-Za-z0-9_]*$/.test(name), else throw; returns `"${name}"`
safeIdentifier(name) ==
    [ok |-> /\ Len(name) >= 1
            /\ name[1] \in LowerCase \cup UpperCase \cup {"_"}
            /\ \A i \in 2..Len(name) : name[i] \in LowerCase \cup UpperCase \cup Digits \cup {"_"},
     ident |-> <<"\"">> \o name \o <<"\"">>]

\* a statement sent to the server: its kind and the identifiers put into it
Statement(text, idents) == [text |-> text, idents |-> idents]

SchemaOf(s) == IF s.schema = NoSchema THEN Public ELSE s.schema

\* getCrudStore(model) -> storeForModel(model): both names are checked before
\* the store is returned
getCrudStore ==
    /\ kind = "postgres"
    /\ sql.store = "none"
    /\ LET schemaIdent == safeIdentifier(SchemaOf(sql))
           tableIdent == safeIdentifier(modelToTableName(sql.model)) IN
       sql' = IF schemaIdent.ok /\ tableIdent.ok
              THEN [sql EXCEPT !.store = "built",
                               !.fullName = <<schemaIdent.ident, tableIdent.ident>>]
              ELSE [sql EXCEPT !.store = "thrown"]
    /\ UNCHANGED <<lateVars, storeVars, fileVars, bootVars, lifeVars, moreVars, factory>>

\* the bootstrap of the first store call: CREATE SCHEMA, CREATE TABLE
SqlEnsureTable ==
    /\ kind = "postgres"
    /\ sql.store = "built"
    /\ ~sql.ready
    /\ LET schemaIdent == safeIdentifier(SchemaOf(sql))
           tableIdent == safeIdentifier(modelToTableName(sql.model)) IN
       sql' = IF schemaIdent.ok /\ tableIdent.ok
              THEN [sql EXCEPT !.ready = TRUE,
                               !.issued = @ \cup
                                  {Statement("CREATE SCHEMA", <<schemaIdent.ident>>),
                                   Statement("CREATE TABLE", <<schemaIdent.ident, tableIdent.ident>>)}]
              ELSE sql
    /\ UNCHANGED <<lateVars, storeVars, fileVars, bootVars, lifeVars, moreVars, factory>>

\* the statement of a store call on the bootstrapped table
SqlQuery ==
    /\ kind = "postgres"
    /\ sql.store = "built"
    /\ sql.ready
    /\ \E text \in {"SELECT", "INSERT", "UPDATE", "DELETE"} :
         sql' = [sql EXCEPT !.issued = @ \cup {Statement(text, sql.fullName)}]
    /\ UNCHANGED <<lateVars, storeVars, fileVars, bootVars, lifeVars, moreVars, factory>>

InitSql ==
    /\ kind = "postgres"
    /\ items = <<>>
    /\ disk = NoFile
    /\ rows = {}
    /\ docs = {}
    /\ validator = FALSE
    /\ used = {}
    /\ clock = 1
    /\ last = NoCall
    /\ tasks = [t \in Tasks |-> IdleTask]
    /\ FileInit
    /\ BootInit
    /\ LifeInit
    /\ MoreInit
    /\ LateInit
    /\ factory = NoFactory
    /\ sql \in {[SqlIdle EXCEPT !.schema = s, !.model = m] : s \in Names \cup {NoSchema}, m \in Names}

NextSql ==
    \/ getCrudStore
    \/ SqlEnsureTable
    \/ SqlQuery

SpecSql == InitSql /\ [][NextSql]_vars

(***************************************************************************)
(* The adapter factory: createDbAdapter(projectRoot, config) reads the     *)
(* explicit config and, for a setting the config leaves undefined, the     *)
(* environment.  A setting is undefined, the empty string, or one of two   *)
(* values.                                                                 *)
(***************************************************************************)
Settings == {"undefined", "empty", "value", "other"}

Adapters == {"undefined", "memory", "json", "postgres", "mongodb", "other"}

\* a ?? b
Coalesce(a, b) == IF a = "undefined" THEN b ELSE a

\* an environment-first choice: process.env[...] ?? config?....
fromEnvOrConfig(explicit, env) == Coalesce(env, explicit)

\* config?.postgres?.connectionString ?? process.env["DATABASE_URL"], and the
\* like for the mongodb settings
fromConfigOrEnv(explicit, env) == Coalesce(explicit, env)

\* !x for a string or undefined
Falsy(x) == x \in {"undefined", "empty"}

\* the thrown Error: the setting its message names and the two places it
\* tells to set
ConfigError(setting, config, env) ==
    [tag |-> "error", setting |-> setting, sources |-> {config, env}, cfg |-> NoCfg]

\* the adapter returned: its kind and the connection settings it was built with
Adapter(k, cfg) == [tag |-> "adapter", setting |-> k, sources |-> {}, cfg |-> cfg]

createMemoryDbAdapter == Adapter("memory", NoCfg)

\* a json adapter that reports the memory kind
createJsonFileDbAdapterAsMemory == Adapter("memory", NoCfg)

createJsonFileDbAdapter == Adapter("json-file", NoCfg)

createPostgresDbAdapter(pgCfg) == Adapter("postgres", pgCfg)

createMongoDbAdapter(cfg) == Adapter("mongodb", cfg)

createDbAdapterResult(f) ==
    LET adapter == Coalesce(f.adapter, "memory") IN
    CASE adapter = "memory" -> createMemoryDbAdapter
      [] adapter = "json" -> createJsonFileDbAdapter
      [] adapter = "postgres" ->
           LET connectionString == fromConfigOrEnv(f.connectionString, f.envUrl) IN
           IF Falsy(connectionString)
           THEN ConfigError("connection string", "db.postgres.connectionString", "DATABASE_URL")
           ELSE createPostgresDbAdapter([NoCfg EXCEPT !.connectionString = connectionString])
      [] adapter = "mongodb" ->
           LET connectionString == fromConfigOrEnv(f.connectionString, f.envUrl)
               dbName == fromConfigOrEnv(f.dbName, f.envDb) IN
           IF Falsy(connectionString)
           THEN ConfigError("connection string", "db.mongodb.connectionString", "MONGODB_URI")
           ELSE IF Falsy(dbName)
           THEN ConfigError("database name", "db.mongodb.dbName", "MONGODB_DB")
           ELSE createMongoDbAdapter([connectionString |-> connectionString, dbName |-> dbName])
      [] OTHER -> createMemoryDbAdapter

createDbAdapter ==
    /\ factory.out = NotCalled
    /\ factory' = [factory EXCEPT !.out = createDbAdapterResult(factory)]
    /\ kind' = IF factory'.out.tag = "adapter" /\ factory'.out.setting \in {"postgres", "mongodb"}
               THEN factory'.out.setting
               ELSE IF factory'.out.tag = "adapter" /\ factory'.out.setting = "json-file"
               THEN "json" ELSE "memory"
    /\ UNCHANGED <<lateVars, fileVars, bootVars, lifeVars, moreVars, sql, items, disk, rows, docs, validator, used, clock,
                   last, tasks>>

InitFactory ==
    /\ kind = "memory"
    /\ items = <<>>
    /\ disk = NoFile
    /\ rows = {}
    /\ docs = {}
    /\ validator = FALSE
    /\ used = {}
    /\ clock = 1
    /\ last = NoCall
    /\ tasks = [t \in Tasks |-> IdleTask]
    /\ FileInit
    /\ BootInit
    /\ LifeInit
    /\ MoreInit
    /\ LateInit
    /\ sql = SqlIdle
    /\ factory \in [adapter : Adapters, connectionString : Settings, envUrl : Settings,
                    dbName : Settings, envDb : Settings, out : {NotCalled}]

NextFactory == createDbAdapter

SpecFactory == InitFactory /\ [][NextFactory]_vars

(***************************************************************************)
(* The lifetime of an adapter: its connection (the pg Pool, the            *)
(* MongoClient), the bootstrap memo of every entity, init(), dispose() and *)
(* store calls interleaved at their awaits.  Each job makes one call.      *)
(***************************************************************************)
LifeOps ==
    {[op |-> "init", e |-> "none"], [op |-> "dispose", e |-> "none"]}
        \cup {[op |-> "call", e |-> e] : e \in Entities}

\* a call in progress: conn is the pool / client it holds, awaits the
\* bootstrap it waits for, nth the number of end() / close() calls its
\* connection has seen including its own
LifeJob(c, pc, conn, awaits, nth, res) ==
    [op |-> c.op, e |-> c.e, pc |-> pc, conn |-> conn, awaits |-> awaits, nth |-> nth, res |-> res]

StartedBoots(l) == Cardinality({b \in Attempts : l.bs[b].pc # "unused"})

\* getPool() / connect() up to the first await.  Postgres: the pool is
\* returned when set, else loadPgPoolCtor() is awaited.  MongoDB: client and
\* db are returned when both are set, else a MongoClient is constructed and
\* its connect() awaited.
ConnectCall(l) ==
    IF kind = "postgres"
    THEN IF l.conn # 0
         THEN [life |-> l, pc |-> "got", conn |-> l.conn]
         ELSE [life |-> l, pc |-> "load", conn |-> 0]
    ELSE IF l.conn # 0 /\ l.db
         THEN [life |-> l, pc |-> "got", conn |-> l.conn]
         ELSE [life |-> [l EXCEPT !.conn = l.made + 1, !.made = l.made + 1],
               pc |-> "connecting", conn |-> l.made + 1]

\* getPool() / connect() after that await.  Postgres: pool = new PoolCtor().
\* MongoDB: db = client.db(...), which throws when dispose() has cleared
\* client meanwhile; the catch clears client and db.
ConnectResume(l) ==
    IF kind = "postgres"
    THEN [life |-> [l EXCEPT !.conn = l.made + 1, !.made = l.made + 1],
          pc |-> "got", conn |-> l.made + 1]
    ELSE IF l.conn = 0
         THEN [life |-> [l EXCEPT !.db = FALSE], pc |-> "failed", conn |-> 0]
         ELSE [life |-> [l EXCEPT !.db = TRUE], pc |-> "got", conn |-> l.conn]

CanConstruct(l) == l.made < MaxPools

\* dispose(), finally: MongoDB clears collectionCache; Postgres has no such
\* statement and keeps tableReady
ReleaseMemo(l) == IF kind = "mongodb" THEN [e \in Entities |-> 0] ELSE l.memo

\* adapter.init()
LifeInitCall(j) ==
    /\ kind \in {"postgres", "mongodb"}
    /\ tasks[j].pc = "start"
    /\ tasks[j].op = "init"
    /\ LET c == ConnectCall(life) IN
       /\ c.pc = "got" \/ kind = "postgres" \/ CanConstruct(life)
       /\ life' = c.life
       /\ tasks' = [tasks EXCEPT ![j].conn = c.conn,
                                 ![j].pc = IF c.pc = "got"
                                           THEN IF kind = "postgres" THEN "query" ELSE "done"
                                           ELSE c.pc,
                                 ![j].res = IF c.pc = "got" /\ kind = "mongodb" THEN "ok" ELSE @]
    /\ UNCHANGED <<lateVars, fileVars, bootVars, confVars, moreVars, kind, items, disk, rows, docs,
                   validator, used, clock, last>>

\* a store call: ready() / collection() finds the memo entry or starts the
\* bootstrap and caches it
LifeStoreCall(j) ==
    /\ kind \in {"postgres", "mongodb"}
    /\ tasks[j].pc = "start"
    /\ tasks[j].op = "call"
    /\ LET e == tasks[j].e
           b == StartedBoots(life) + 1
           c == ConnectCall(life) IN
       IF life.memo[e] # 0
       THEN /\ tasks' = [tasks EXCEPT ![j].pc = "await", ![j].awaits = life.memo[e]]
            /\ UNCHANGED life
       ELSE /\ b \in Attempts
            /\ c.pc = "got" \/ kind = "postgres" \/ CanConstruct(life)
            /\ life' = [c.life EXCEPT !.memo[e] = b,
                                      !.bs[b] = [e |-> e, conn |-> c.conn,
                                                 pc |-> IF c.pc = "got" THEN "ddl" ELSE c.pc]]
            /\ tasks' = [tasks EXCEPT ![j].pc = "await", ![j].awaits = b]
    /\ UNCHANGED <<lateVars, fileVars, bootVars, confVars, moreVars, kind, items, disk, rows, docs,
                   validator, used, clock, last>>

\* a bootstrap resumes after an await
LifeBootstrapStep(b) ==
    /\ kind \in {"postgres", "mongodb"}
    /\ life.bs[b].pc \in {"load", "connecting", "ddl"}
    /\ IF life.bs[b].pc = "ddl"
       THEN life' = [life EXCEPT !.bs[b].pc = "resolved"]
       ELSE LET c == ConnectResume(life) IN
            /\ kind = "mongodb" \/ CanConstruct(life)
            /\ life' = IF c.pc = "failed"
                       THEN [c.life EXCEPT !.bs[b].pc = "rejected", !.memo[life.bs[b].e] = 0]
                       ELSE [c.life EXCEPT !.bs[b].pc = "ddl", !.bs[b].conn = c.conn]
    /\ UNCHANGED <<lateVars, fileVars, bootVars, confVars, moreVars, kind, items, disk, rows, docs,
                   validator, used, clock, last, tasks>>

\* await ready() / await collection() returns or throws
LifeAwaitSettles(j) ==
    /\ kind \in {"postgres", "mongodb"}
    /\ tasks[j].pc = "await"
    /\ LET b == life.bs[tasks[j].awaits]
           c == ConnectCall(life) IN
       /\ b.pc \in {"resolved", "rejected"}
       /\ tasks' = IF b.pc = "rejected"
                   THEN [tasks EXCEPT ![j].pc = "done", ![j].res = "thrown"]
                   ELSE IF kind = "mongodb"
                   THEN [tasks EXCEPT ![j].pc = "query", ![j].conn = b.conn]
                   ELSE [tasks EXCEPT ![j].pc = IF c.pc = "got" THEN "query" ELSE c.pc,
                                      ![j].conn = c.conn]
    /\ UNCHANGED <<lateVars, fileVars, bootVars, confVars, moreVars, kind, items, disk, rows, docs,
                   validator, used, clock, last, life>>

\* a call's own getPool() / connect() resumes after its await
LifeConnected(j) ==
    /\ kind \in {"postgres", "mongodb"}
    /\ tasks[j].pc \in {"load", "connecting"}
    /\ kind = "mongodb" \/ CanConstruct(life)
    /\ LET c == ConnectResume(life) IN
       /\ life' = c.life
       /\ tasks' = [tasks EXCEPT ![j].conn = c.conn,
                                 ![j].pc = IF c.pc = "got" /\ kind = "postgres" THEN "query" ELSE "done",
                                 ![j].res = IF c.pc = "failed" THEN "thrown"
                                            ELSE IF kind = "mongodb" THEN "ok" ELSE @]
    /\ UNCHANGED <<lateVars, fileVars, bootVars, confVars, moreVars, kind, items, disk, rows, docs,
                   validator, used, clock, last>>

\* pool.query(...) / a collection call settles; what the driver does on a
\* connection that was closed is the driver's choice
LifeQuery(j) ==
    /\ kind \in {"postgres", "mongodb"}
    /\ tasks[j].pc = "query"
    /\ \E r \in IF life.ends[tasks[j].conn] > 0 THEN {"ok", "thrown"} ELSE {"ok"} :
         tasks' = [tasks EXCEPT ![j].pc = "done", ![j].res = r]
    /\ UNCHANGED <<lateVars, fileVars, bootVars, confVars, moreVars, kind, items, disk, rows, docs,
                   validator, used, clock, last, life>>

\* adapter.dispose() up to its await: nothing when the connection is null,
\* else pool.end() / client.close() is called
LifeDispose(j) ==
    /\ kind \in {"postgres", "mongodb"}
    /\ tasks[j].pc = "start"
    /\ tasks[j].op = "dispose"
    /\ IF life.conn = 0
       THEN /\ tasks' = [tasks EXCEPT ![j].pc = "done", ![j].res = "ok"]
            /\ UNCHANGED life
       ELSE /\ life' = [life EXCEPT !.ends[life.conn] = @ + 1]
            /\ tasks' = [tasks EXCEPT ![j].pc = "closing", ![j].conn = life.conn,
                                      ![j].nth = life.ends[life.conn] + 1]
    /\ UNCHANGED <<lateVars, fileVars, bootVars, confVars, moreVars, kind, items, disk, rows, docs,
                   validator, used, clock, last>>

\* adapter.dispose() after its await: the finally block.  What a second
\* end() / close() on one connection does is the driver's choice.
LifeDisposeSettles(j) ==
    /\ kind \in {"postgres", "mongodb"}
    /\ tasks[j].pc = "closing"
    /\ life' = [life EXCEPT !.conn = 0, !.db = FALSE, !.memo = ReleaseMemo(life)]
    /\ \E r \in IF tasks[j].nth > 1 THEN {"ok", "thrown"} ELSE {"ok"} :
         tasks' = [tasks EXCEPT ![j].pc = "done", ![j].res = r]
    /\ UNCHANGED <<lateVars, fileVars, bootVars, confVars, moreVars, kind, items, disk, rows, docs,
                   validator, used, clock, last>>

\* Memory / File adapter: getCrudStore(model) returns the store cached under
\* the entity's key or creates and caches one
LifeGetCrudStore(j) ==
    /\ kind \in {"memory", "json"}
    /\ tasks[j].pc = "start"
    /\ tasks[j].op = "call"
    /\ LET e == tasks[j].e IN
       IF life.stores[e] # 0
       THEN /\ tasks' = [tasks EXCEPT ![j].pc = "done", ![j].res = "ok", ![j].conn = life.stores[e]]
            /\ UNCHANGED life
       ELSE /\ life' = [life EXCEPT !.stores[e] = life.made + 1, !.made = life.made + 1]
            /\ tasks' = [tasks EXCEPT ![j].pc = "done", ![j].res = "ok", ![j].conn = life.made + 1]
    /\ UNCHANGED <<lateVars, fileVars, bootVars, confVars, moreVars, kind, items, disk, rows, docs,
                   validator, used, clock, last>>

InitLife ==
    /\ kind \in Backends
    /\ items = <<>>
    /\ disk = NoFile
    /\ rows = {}
    /\ docs = {}
    /\ validator = FALSE
    /\ used = {}
    /\ clock = 1
    /\ last = NoCall
    /\ FileInit
    /\ BootInit
    /\ ConfInit
    /\ MoreInit
    /\ LateInit
    /\ life = LifeIdle
    /\ tasks \in [Jobs -> {LifeJob(c, "start", 0, 0, 0, "none") :
                             c \in IF kind \in {"memory", "json"}
                                   THEN {c \in LifeOps : c.op = "call"} ELSE LifeOps}]

NextLife ==
    \/ \E j \in Jobs :
          \/ LifeInitCall(j)
          \/ LifeStoreCall(j)
          \/ LifeAwaitSettles(j)
          \/ LifeConnected(j)
          \/ LifeQuery(j)
          \/ LifeDispose(j)
          \/ LifeDisposeSettles(j)
          \/ LifeGetCrudStore(j)
    \/ \E b \in Attempts : LifeBootstrapStep(b)

SpecLife == InitLife /\ [][NextLife]_vars

(***************************************************************************)
(* Error paths of the adapters: one store call during which one backend    *)
(* call (or none) fails.  An error message is the sequence of its parts    *)
(* from the outermost wrapper to the driver's own message.                 *)
(***************************************************************************)
StoreOps == {"getAll", "getById", "create", "update", "delete"}

\* the operation name the store puts into the message: getById(<id>), ...
OpLabel(op) == IF op \in {"getById", "update", "delete"} THEN <<op, "id">> ELSE <<op>>

\* the messages a driver fails with
DriverMessages == {"ECONNREFUSED", "permission denied"}

\* an Error thrown by the driver
DriverError(text) == <<[prefix |-> "", entity |-> "", op |-> <<>>, text |-> text]>>

\* errorMessage(err): err.message
errorMessage(err) == err

\* a wrapper that drops the underlying message
asOpErrorBare(prefix, op, modelName, err) ==
    <<[prefix |-> prefix, entity |-> modelName, op |-> op, text |-> "failed"]>>

\* asPostgresOpError / asMongoOpError: `${prefix} (${modelName}) ${op} failed: ${msg}`
asOpError(prefix, op, modelName, err) ==
    <<[prefix |-> prefix, entity |-> modelName, op |-> op, text |-> "failed"]>> \o errorMessage(err)

Prefix == IF kind = "postgres" THEN "Postgres" ELSE "MongoDB"

\* a bootstrap that syncs the validator only of a collection it finds
BootstrapCallsSyncExisting(f) ==
    IF kind = "postgres"
    THEN <<"load", "connect", "schema", "table">>
    ELSE <<"connect", "list">> \o (IF f.exists THEN <<"collMod">> ELSE <<"createValidated">>)

\* the backend calls of a bootstrap in their order; MongoDB creates the
\* collection only when listCollections finds none
BootstrapCalls(f) ==
    IF kind = "postgres"
    THEN <<"load", "connect", "schema", "table">>
    ELSE <<"connect", "list">> \o (IF f.exists THEN <<>> ELSE <<"createValidated">>)
            \o <<"collMod">>

\* the calls whose failure the bootstrap catches and survives: the create
\* with validator (the plain create is tried instead) and collMod
BestEffort == {"createValidated", "collMod"}

\* only the call the driver fails at fails
FailedCallsPointOnly(f) == {f.point}

\* the calls that fail when made: the one the driver fails at; a server that
\* refuses the plain create also refuses the create with validator
FailedCalls(f) ==
    IF f.point = "createPlain" THEN {"createValidated", "createPlain"} ELSE {f.point}

\* the outcome of ensureTable / ensureCollection: the calls made and the
\* error it rejects with (<<>> when it resolves)
RECURSIVE RunBootstrap(_, _, _)
RunBootstrap(f, calls, made) ==
    IF calls = <<>> THEN [made |-> made, err |-> <<>>]
    ELSE LET c == Head(calls) IN
         IF c \notin FailedCalls(f) THEN RunBootstrap(f, Tail(calls), Append(made, c))
         ELSE IF c = "createValidated"
         THEN RunBootstrap(f, <<"createPlain">> \o Tail(calls), Append(made, c))
         ELSE IF c = "collMod"
         THEN RunBootstrap(f, Tail(calls), Append(made, c))
         ELSE [made |-> Append(made, c),
               err |-> asOpError(Prefix,
                                 IF kind = "postgres" THEN <<"ensure table">>
                                 ELSE <<"ensure collection">>,
                                 f.entity,
                                 IF c = (IF kind = "postgres" THEN "load" ELSE "connect")
                                 THEN asOpError(Prefix, <<"connect">>, "", DriverError(f.msg))
                                 ELSE DriverError(f.msg))]

\* the store call rejects with err
Rejected(err) == [tag |-> "error", val |-> err]

\* await ready() / await collection() of a store call
FailReady ==
    /\ kind \in {"postgres", "mongodb"}
    /\ fail.pc = "start"
    /\ LET b == IF fail.ready THEN [made |-> <<>>, err |-> <<>>]
                ELSE RunBootstrap(fail, BootstrapCalls(fail), <<>>) IN
       fail' = IF b.err = <<>>
               THEN [fail EXCEPT !.pc = "query", !.made = b.made]
               ELSE [fail EXCEPT !.pc = "done", !.made = b.made,
                                 !.res = Rejected(asOpError(Prefix, OpLabel(fail.op), fail.entity, b.err))]
    /\ UNCHANGED <<lateVars, storeVars, fileVars, bootVars, confVars, lifeVars, http, app>>

\* the store call's own query.  MongoDB answers a by-id call whose id is no
\* ObjectId without asking the server.
FailQuery ==
    /\ kind \in {"postgres", "mongodb"}
    /\ fail.pc = "query"
    /\ LET asks == ~(kind = "mongodb" /\ fail.op \in {"getById", "update", "delete"} /\ ~fail.valid)
           value == CASE fail.op = "getAll" -> List(<<>>)
                      [] fail.op = "delete" -> Bool(FALSE)
                      [] fail.op = "create" -> Found(EmptyObj)
                      [] OTHER -> Absent IN
       fail' = IF asks /\ fail.point = "query"
               THEN [fail EXCEPT !.pc = "done", !.made = Append(@, "query"),
                                 !.res = Rejected(asOpError(Prefix, OpLabel(fail.op), fail.entity,
                                                          DriverError(fail.msg)))]
               ELSE [fail EXCEPT !.pc = "done", !.res = value,
                                 !.made = IF asks THEN Append(@, "query") ELSE @]
    /\ UNCHANGED <<lateVars, storeVars, fileVars, bootVars, confVars, lifeVars, http, app>>

FailPoints ==
    {"none", "load", "connect", "schema", "table", "list", "createValidated", "createPlain",
     "collMod", "query"}

InitFail ==
    /\ kind \in {"postgres", "mongodb"}
    /\ items = <<>>
    /\ disk = NoFile
    /\ rows = {}
    /\ docs = {}
    /\ validator = FALSE
    /\ used = {}
    /\ clock = 1
    /\ last = NoCall
    /\ tasks = [t \in Tasks |-> IdleTask]
    /\ FileInit
    /\ BootInit
    /\ ConfInit
    /\ LifeInit
    /\ LateInit
    /\ http = HttpIdle
    /\ app = AppIdle
    /\ fail \in [pc : {"start"}, op : StoreOps, entity : {"User"}, ready : BOOLEAN,
                 exists : BOOLEAN, valid : BOOLEAN, point : FailPoints, msg : DriverMessages,
                 made : {<<>>}, res : {NoResult}]

NextFail ==
    \/ FailReady
    \/ FailQuery

SpecFail == InitFail /\ [][NextFail]_vars

(***************************************************************************)
(* validateInput(schema, input): the errors of a request body against an   *)
(* entity schema, in the order of the schema's keys.                       *)
(***************************************************************************)
FieldTypes == {"string", "number", "boolean"}

FieldOrder == <<"a", "b">>

\* defineModel(name, { a: ..., b: ... }) and defineModel(name, { a: ... })
Schemas ==
    [{"a", "b"} -> [type : FieldTypes, isOptional : BOOLEAN]]
        \cup [{"a"} -> [type : FieldTypes, isOptional : BOOLEAN]]

\* the values of a body's field: null, a number, a string, a boolean, a
\* nested object or array
FieldValues == {"null", "n1", "s1", "t1", "o1"}

\* request bodies: no object (a string, a number, null, nothing), or an
\* object with some of the fields a, b and the undeclared x
Bodies ==
    {NonObject} \cup
    {Obj(f) : f \in UNION {[keys -> FieldValues] : keys \in SUBSET {"a", "b"}}} \cup
    {Obj([x |-> "s1"]), Obj([a |-> "n1", x |-> "n1"]), Obj([a |-> "s1", b |-> "t1", x |-> "o1"])}

\* a validation that takes null for a value
fieldErrorsNullIsValue(field, key, record) ==
    IF key \notin DOMAIN record
    THEN IF field.isOptional THEN <<>> ELSE <<<<key, "is required">>>>
    ELSE IF TypeOf(record[key]) # field.type
    THEN <<<<key, "must be a", field.type>>>>
    ELSE <<>>

\* the body of the loop over the schema's keys
fieldErrors(field, key, record) ==
    IF key \notin DOMAIN record \/ record[key] = "null"
    THEN IF field.isOptional THEN <<>> ELSE <<<<key, "is required">>>>
    ELSE IF TypeOf(record[key]) # field.type
    THEN <<<<key, "must be a", field.type>>>>
    ELSE <<>>

RECURSIVE schemaErrors(_, _, _)
schemaErrors(sch, keys, record) ==
    IF keys = <<>> THEN <<>>
    ELSE (IF Head(keys) \in DOMAIN sch
          THEN fieldErrors(sch[Head(keys)], Head(keys), record) ELSE <<>>)
         \o schemaErrors(sch, Tail(keys), record)

validateInput(sch, input) ==
    IF ~input.obj THEN <<<<"body", "must be an object">>>>
    ELSE schemaErrors(sch, FieldOrder, input.f)

\* validateInput(model.schema, req.body) is called
Validate ==
    /\ http.pc = "input"
    /\ http' = [http EXCEPT !.pc = "validated", !.errors = validateInput(http.schema, http.body)]
    /\ UNCHANGED <<lateVars, storeVars, fileVars, bootVars, confVars, lifeVars, fail, app>>

InitValidate ==
    /\ kind = "memory"
    /\ items = <<>>
    /\ disk = NoFile
    /\ rows = {}
    /\ docs = {}
    /\ validator = FALSE
    /\ used = {}
    /\ clock = 1
    /\ last = NoCall
    /\ tasks = [t \in Tasks |-> IdleTask]
    /\ FileInit
    /\ BootInit
    /\ ConfInit
    /\ LifeInit
    /\ LateInit
    /\ fail = FailIdle
    /\ app = AppIdle
    /\ http \in [pc : {"input"}, schema : Schemas, body : Bodies, errors : {<<>>}]

NextValidate == Validate

SpecValidate == InitValidate /\ [][NextValidate]_vars

(***************************************************************************)
(* createCrudRoutes(model, store): the five routes of an entity on the     *)
(* Memory store.  Every action serves one request completely.              *)
(***************************************************************************)
\* req.params.id: only white space, or an id with or without white space
\* around it
RawIds ==
    {[given |-> TRUE, blank |-> TRUE, id |-> 0, pad |-> FALSE]}
        \cup [given : {TRUE}, blank : {FALSE}, id : LookupIds, pad : BOOLEAN]

\* an id taken as it comes: with its white space it names no record
parseIdUntrimmed(raw) == [ok |-> TRUE, id |-> IF raw.blank \/ raw.pad THEN 0 ELSE raw.id]

\* parseId(raw): raw.trim(), null when nothing is left
parseId(raw) == [ok |-> ~raw.blank, id |-> raw.id]

\* request bodies of POST and PUT: no object; a body with client-sent id and
\* timestamps, both fields and an undeclared one; the optional field alone;
\* the required field alone; a value of the wrong type
RouteBodies ==
    {NonObject,
     Obj(Spread(ClientReserved, [a |-> "n1", b |-> "n1", x |-> "n1"])),
     Obj([b |-> "n2"]),
     Obj([a |-> "n2"]),
     Obj([a |-> "s1", b |-> "n1"])}

\* a route that never refuses a body
rejectsNothing(errors) == FALSE

\* if (errors.length > 0) return res.status(400).json({ errors })
rejects(errors) == Len(errors) > 0

\* a route without :id
NoRaw == [given |-> FALSE, blank |-> FALSE, id |-> 0, pad |-> FALSE]

\* the request served, the response sent, and the store methods called
Served(method, raw, body, status, sent, called) ==
    [pc |-> "served", method |-> method, raw |-> raw, body |-> body, status |-> status,
     sent |-> sent, called |-> called]

\* res.status(400).json({ message: "Invalid id" })
handleInvalidId == [status |-> "400", sent |-> Rejected(<<"Invalid id">>)]

NotFound == [status |-> "404", sent |-> Rejected(<<"Not found">>)]

\* router.get("/")
RouteGetAll ==
    /\ kind = "memory"
    /\ http' = Served("GET", NoRaw, NonObject, "200", MapValues, <<"getAll">>)
    /\ last' = Call("getAll", 0, NonObject, MapValues)
    /\ UNCHANGED <<lateVars, fileVars, bootVars, confVars, lifeVars, fail, app, kind, items, disk, rows,
                   docs, validator, used, clock, tasks>>

\* router.get("/:id")
RouteGetById ==
    /\ kind = "memory"
    /\ \E raw \in RawIds :
         LET id == parseId(raw) IN
         IF ~id.ok
         THEN /\ http' = Served("GET", raw, NonObject, handleInvalidId.status,
                                handleInvalidId.sent, <<>>)
              /\ UNCHANGED last
         ELSE /\ http' = IF MapLookup(id.id) = Absent
                         THEN Served("GET", raw, NonObject, NotFound.status, NotFound.sent,
                                     <<"getById">>)
                         ELSE Served("GET", raw, NonObject, "200", MapLookup(id.id), <<"getById">>)
              /\ last' = Call("getById", id.id, NonObject, MapLookup(id.id))
    /\ UNCHANGED <<lateVars, fileVars, bootVars, confVars, lifeVars, fail, app, kind, items, disk, rows,
                   docs, validator, used, clock, tasks>>

\* router.post("/")
RoutePost ==
    /\ kind = "memory"
    /\ \E body \in RouteBodies :
         LET errors == validateInput(schema, body) IN
         IF rejects(errors)
         THEN /\ http' = Served("POST", NoRaw, body, "400", Rejected(errors), <<>>)
              /\ UNCHANGED <<items, used, clock, last>>
         ELSE \E now \in nowIso(clock), id \in randomUUID(used) :
                LET item == NewItem(id, now, body) IN
                /\ items' = MapSet(items, item)
                /\ used' = used \cup {id}
                /\ clock' = now
                /\ last' = Call("create", 0, body, Found(item))
                /\ http' = Served("POST", NoRaw, body, "201", Found(item), <<"create">>)
    /\ UNCHANGED <<lateVars, fileVars, bootVars, confVars, lifeVars, fail, app, kind, disk, rows, docs,
                   validator, tasks>>

\* router.put("/:id")
RoutePut ==
    /\ kind = "memory"
    /\ \E raw \in RawIds, body \in RouteBodies :
         LET id == parseId(raw)
             errors == validateInput(schema, body) IN
         IF ~id.ok
         THEN /\ http' = Served("PUT", raw, body, handleInvalidId.status, handleInvalidId.sent, <<>>)
              /\ UNCHANGED <<items, clock, last>>
         ELSE IF rejects(errors)
         THEN /\ http' = Served("PUT", raw, body, "400", Rejected(errors), <<>>)
              /\ UNCHANGED <<items, clock, last>>
         ELSE IF ~MapHas(items, id.id)
         THEN /\ http' = Served("PUT", raw, body, NotFound.status, NotFound.sent, <<"update">>)
              /\ last' = Call("update", id.id, body, Absent)
              /\ UNCHANGED <<items, clock>>
         ELSE \E now \in nowIso(clock) :
                LET updated == UpdatedItem(MapGet(items, id.id), body, now) IN
                /\ items' = MapSet(items, updated)
                /\ clock' = now
                /\ last' = Call("update", id.id, body, Found(updated))
                /\ http' = Served("PUT", raw, body, "200", Found(updated), <<"update">>)
    /\ UNCHANGED <<lateVars, fileVars, bootVars, confVars, lifeVars, fail, app, kind, disk, rows, docs,
                   validator, used, tasks>>

\* router.delete("/:id")
RouteDelete ==
    /\ kind = "memory"
    /\ \E raw \in RawIds :
         LET id == parseId(raw) IN
         IF ~id.ok
         THEN /\ http' = Served("DELETE", raw, NonObject, handleInvalidId.status,
                                handleInvalidId.sent, <<>>)
              /\ UNCHANGED <<items, last>>
         ELSE /\ items' = MapDelete(items, id.id)
              /\ last' = Call("delete", id.id, NonObject, Bool(MapHas(items, id.id)))
              /\ http' = IF MapHas(items, id.id)
                         THEN Served("DELETE", raw, NonObject, "204", NoResult, <<"delete">>)
                         ELSE Served("DELETE", raw, NonObject, NotFound.status, NotFound.sent,
                                     <<"delete">>)
    /\ UNCHANGED <<lateVars, fileVars, bootVars, confVars, lifeVars, fail, app, kind, disk, rows, docs,
                   validator, used, clock, tasks>>

InitHttp ==
    /\ kind = "memory"
    /\ items = <<>>
    /\ disk = NoFile
    /\ rows = {}
    /\ docs = {}
    /\ validator = FALSE
    /\ used = {}
    /\ clock = 1
    /\ last = NoCall
    /\ tasks = [t \in Tasks |-> IdleTask]
    /\ AuxInit

NextHttp ==
    \/ RouteGetAll
    \/ RouteGetById
    \/ RoutePost
    \/ RoutePut
    \/ RouteDelete

SpecHttp == InitHttp /\ [][NextHttp]_vars

(***************************************************************************)
(* createApp(config).start(): the db section of backend.config.* is        *)
(* validated, then the CRUD routes are generated on config.dbAdapter or,   *)
(* without one, on the adapter createDbAdapter builds.                     *)
(***************************************************************************)
\* a section of the config file: not there, something that is no object, or
\* an object with its settings
Section(shape, connectionString, dbName) ==
    [shape |-> shape, connectionString |-> connectionString, dbName |-> dbName]

NoSection == Section("undefined", "undefined", "undefined")

ScalarSection == Section("scalar", "undefined", "undefined")

PostgresSections ==
    {NoSection, ScalarSection}
        \cup {Section("object", c, "undefined") : c \in {"undefined", "empty", "value", "nonstring"}}

MongoSections ==
    {NoSection, ScalarSection}
        \cup {Section("object", c, d) : c \in {"undefined", "value"},
                                        d \in {"undefined", "value", "nonstring"}}

JsonSections == {NoSection, ScalarSection, Section("object", "undefined", "undefined")}

\* db.adapter in the file: not there, the four kinds, another string, no string
FileAdapters == {"undefined", "memory", "json", "postgres", "mongodb", "other", "nonstring"}

\* fileConfig.db
FileDbs ==
    {[shape |-> s, adapter |-> "undefined", json |-> NoSection, postgres |-> NoSection,
      mongodb |-> NoSection] : s \in {"undefined", "scalar"}}
        \cup [shape : {"object"}, adapter : FileAdapters, json : JsonSections,
              postgres : PostgresSections, mongodb : MongoSections]

\* process.env: DATABASE_URL, MONGODB_URI, MONGODB_DB, each unset or set
Envs == [DATABASE_URL : {"undefined", "value"}, MONGODB_URI : {"undefined", "value"},
         MONGODB_DB : {"undefined", "value"}]

\* validateDbConfig(dbCfg, configPath) throws
validateDbConfigThrows(db, env) ==
    \/ db.shape # "object"
    \/ db.adapter \in {"nonstring", "other"}
    \/ db.json.shape = "scalar"
    \/ /\ db.postgres.shape # "undefined"
       /\ \/ db.postgres.shape = "scalar"
          \/ db.postgres.connectionString = "nonstring"
          \/ /\ db.adapter = "postgres"
             /\ Falsy(db.postgres.connectionString)
             /\ Falsy(env.DATABASE_URL)
    \/ /\ db.mongodb.shape # "undefined"
       /\ \/ db.mongodb.shape = "scalar"
          \/ db.mongodb.connectionString = "nonstring"
          \/ db.mongodb.dbName = "nonstring"
          \/ /\ db.adapter = "mongodb"
             /\ Falsy(db.mongodb.connectionString)
             /\ Falsy(env.MONGODB_URI)
          \/ /\ db.adapter = "mongodb"
             /\ Falsy(db.mongodb.dbName)
             /\ Falsy(env.MONGODB_DB)

\* buildFileConfig: validateDbConfig runs when the file has a db section
buildFileConfigThrows(db, env) == db.shape # "undefined" /\ validateDbConfigThrows(db, env)

\* createDbAdapter(projectRoot, effectiveConfig.db) on the validated section
createDbAdapterFor(db, env) ==
    createDbAdapterResult(
        [adapter |-> db.adapter,
         connectionString |-> IF db.adapter = "mongodb" THEN db.mongodb.connectionString
                              ELSE db.postgres.connectionString,
         envUrl |-> IF db.adapter = "mongodb" THEN env.MONGODB_URI ELSE env.DATABASE_URL,
         dbName |-> db.mongodb.dbName,
         envDb |-> env.MONGODB_DB])

\* start() up to the merged config: loadBackendConfig, buildFileConfig
AppLoadConfig ==
    /\ app.pc = "created"
    /\ app' = IF buildFileConfigThrows(app.fileDb, app.env)
              THEN [app EXCEPT !.pc = "failed", !.error = "Invalid backend config"]
              ELSE [app EXCEPT !.pc = "configured"]
    /\ UNCHANGED <<lateVars, storeVars, fileVars, bootVars, confVars, lifeVars, fail, http>>

\* start() from loadModels on: the adapter, its init(), generateCrudRoutes,
\* loadRoutes, listen
AppServe ==
    /\ app.pc = "configured"
    /\ IF ~app.enableCrud
       THEN app' = [app EXCEPT !.pc = "listening"]
       ELSE IF app.dbAdapter
       THEN app' = [app EXCEPT !.pc = "listening", !.stores = "supplied"]
       ELSE LET out == createDbAdapterFor(app.fileDb, app.env) IN
            app' = IF out.tag = "error"
                   THEN [app EXCEPT !.pc = "failed", !.created = TRUE, !.error = out.setting]
                   ELSE [app EXCEPT !.pc = "listening", !.created = TRUE, !.stores = out.setting]
    /\ UNCHANGED <<lateVars, storeVars, fileVars, bootVars, confVars, lifeVars, fail, http>>

InitApp ==
    /\ kind = "memory"
    /\ items = <<>>
    /\ disk = NoFile
    /\ rows = {}
    /\ docs = {}
    /\ validator = FALSE
    /\ used = {}
    /\ clock = 1
    /\ last = NoCall
    /\ tasks = [t \in Tasks |-> IdleTask]
    /\ FileInit
    /\ BootInit
    /\ ConfInit
    /\ LifeInit
    /\ LateInit
    /\ fail = FailIdle
    /\ http = HttpIdle
    /\ app \in [pc : {"created"}, dbAdapter : BOOLEAN, enableCrud : BOOLEAN, fileDb : FileDbs,
                env : Envs, created : {FALSE}, stores : {"none"}, error : {""}]

NextApp ==
    \/ AppLoadConfig
    \/ AppServe

SpecApp == InitApp /\ [][NextApp]_vars

(***************************************************************************)
(* The Document adapter's client: connect(), ensureCollection() with its   *)
(* cache, init() and dispose(), with a driver whose connect() and whose    *)
(* collection commands may fail.  Each job makes one call; the calls are   *)
(* made one after another (mongo.seq) or interleaved at their awaits.      *)
(***************************************************************************)
\* a call in progress: mine is the MongoClient its connect() constructed,
\* got the client connect() returned to it, awaits the bootstrap it waits for
ClientJob(c, pc, mine, got, awaits, res) ==
    [op |-> c.op, e |-> c.e, pc |-> pc, mine |-> mine, got |-> got, awaits |-> awaits,
     res |-> res]

\* connect() up to its first await: client and db are returned when both are
\* set, else client = new MongoClient(...) and client.connect() is called
connectEnter(m) ==
    IF m.client # 0 /\ m.db # 0
    THEN [m |-> m, pc |-> "got", mine |-> 0, got |-> m.client]
    ELSE [m |-> [m EXCEPT !.client = m.made + 1, !.made = m.made + 1,
                          !.state[m.made + 1] = "connecting"],
          pc |-> "connecting", mine |-> m.made + 1, got |-> 0]

\* connect() once client.connect() of the caller's client has settled:
\* db = client.db(cfg.dbName) on whatever `client` holds now (a TypeError
\* when it is null), or the catch block up to `await client?.close()`
connectSettle(m, mine, ok) ==
    LET n == [m EXCEPT !.state[mine] = IF ok THEN "open" ELSE "failed"] IN
    IF ok /\ n.client # 0
    THEN [m |-> [n EXCEPT !.db = n.client], pc |-> "got", got |-> n.client]
    ELSE IF n.client # 0
    THEN [m |-> [n EXCEPT !.closes[n.client] = @ + 1], pc |-> "closing", got |-> 0]
    ELSE [m |-> [n EXCEPT !.db = 0], pc |-> "failed", got |-> 0]

\* a catch block that leaves the references as they are
connectCaughtKeepsClient(m) == m

\* the catch block after its await: client = null; db = null; throw
connectCaught(m) == [m EXCEPT !.client = 0, !.db = 0]

\* the callback of promise.catch: collectionCache.delete(collectionName)
cacheDelete(m, e) == [m EXCEPT !.cache[e] = 0]

\* the bootstraps started so far
Bootstraps(m) == Cardinality({b \in Attempts : m.bs[b].pc # "unused"})

\* no other call is under way
Alone(j) == \A k \in Jobs \ {j} : tasks[k].pc \in {"start", "done"}

\* a call may start: any time, or when the calls are made one after another
\* once the calls before it are over
MayStart(j) ==
    /\ tasks[j].pc = "start"
    /\ mongo.seq => (Alone(j) /\ \A k \in Jobs : k < j => tasks[k].pc = "done")

\* adapter.init(): await connect()
ClientInit(j) ==
    /\ MayStart(j)
    /\ tasks[j].op = "init"
    /\ LET c == connectEnter(mongo) IN
       /\ c.pc = "got" \/ mongo.made < MaxPools
       /\ mongo' = c.m
       /\ tasks' = [tasks EXCEPT ![j].mine = c.mine, ![j].got = c.got,
                                 ![j].pc = IF c.pc = "got" THEN "done" ELSE c.pc,
                                 ![j].res = IF c.pc = "got" THEN "ok" ELSE @]
    /\ UNCHANGED <<fileVars, bootVars, confVars, lifeVars, moreVars, twin, iso, kind, items, disk, rows,
                   docs, validator, used, clock, last>>

\* init(): client.connect() settles
ClientInitConnects(j) ==
    /\ tasks[j].pc = "connecting"
    /\ \E ok \in BOOLEAN :
         LET c == connectSettle(mongo, tasks[j].mine, ok) IN
         /\ mongo' = c.m
         /\ tasks' = [tasks EXCEPT ![j].got = c.got,
                                   ![j].pc = IF c.pc = "closing" THEN "closing" ELSE "done",
                                   ![j].res = IF c.pc = "got" THEN "ok"
                                              ELSE IF c.pc = "failed" THEN "thrown" ELSE @]
    /\ UNCHANGED <<fileVars, bootVars, confVars, lifeVars, moreVars, twin, iso, kind, items, disk, rows,
                   docs, validator, used, clock, last>>

\* init(): the close() of connect()'s catch block settles
ClientInitCaught(j) ==
    /\ tasks[j].pc = "closing"
    /\ tasks[j].op = "init"
    /\ mongo' = connectCaught(mongo)
    /\ tasks' = [tasks EXCEPT ![j].pc = "done", ![j].res = "thrown"]
    /\ UNCHANGED <<fileVars, bootVars, confVars, lifeVars, moreVars, twin, iso, kind, items, disk, rows,
                   docs, validator, used, clock, last>>

\* a store call: ensureCollection(model) returns the cached promise or starts
\* a bootstrap, which runs into connect(), and caches its promise
ClientEnsureCollection(j) ==
    /\ MayStart(j)
    /\ tasks[j].op = "call"
    /\ LET e == tasks[j].e
           b == Bootstraps(mongo) + 1
           c == connectEnter(mongo) IN
       IF mongo.cache[e] # 0
       THEN /\ tasks' = [tasks EXCEPT ![j].pc = "await", ![j].awaits = mongo.cache[e]]
            /\ UNCHANGED mongo
       ELSE /\ b \in Attempts
            /\ c.pc = "got" \/ mongo.made < MaxPools
            /\ mongo' = [c.m EXCEPT !.cache[e] = b,
                                    !.bs[b] = [e |-> e, mine |-> c.mine, got |-> c.got,
                                               pc |-> IF c.pc = "got" THEN "ddl" ELSE c.pc,
                                               evicted |-> 0]]
            /\ tasks' = [tasks EXCEPT ![j].pc = "await", ![j].awaits = b]
    /\ UNCHANGED <<fileVars, bootVars, confVars, lifeVars, moreVars, twin, iso, kind, items, disk, rows,
                   docs, validator, used, clock, last>>

\* a bootstrap's promise rejects: the guard evicts the entry of its collection
Evict(m, b) ==
    [cacheDelete(m, m.bs[b].e) EXCEPT !.bs[b].pc = "rejected",
                                       !.bs[b].evicted = m.cache[m.bs[b].e]]

\* a bootstrap: client.connect() settles
ClientBootstrapConnects(b) ==
    /\ mongo.bs[b].pc = "connecting"
    /\ \E ok \in BOOLEAN :
         LET c == connectSettle(mongo, mongo.bs[b].mine, ok) IN
         mongo' = IF c.pc = "failed"
                  THEN Evict(c.m, b)
                  ELSE [c.m EXCEPT !.bs[b].pc = IF c.pc = "got" THEN "ddl" ELSE "closing",
                                   !.bs[b].got = c.got]
    /\ UNCHANGED <<fileVars, bootVars, confVars, lifeVars, moreVars, twin, iso, kind, items, disk, rows,
                   docs, validator, used, clock, last, tasks>>

\* a bootstrap: the close() of connect()'s catch block settles
ClientBootstrapCaught(b) ==
    /\ mongo.bs[b].pc = "closing"
    /\ mongo' = Evict(connectCaught(mongo), b)
    /\ UNCHANGED <<fileVars, bootVars, confVars, lifeVars, moreVars, twin, iso, kind, items, disk, rows,
                   docs, validator, used, clock, last, tasks>>

\* a bootstrap: listCollections, createCollection and collMod are through,
\* or listCollections / the plain createCollection has failed
ClientBootstrapCommands(b) ==
    /\ mongo.bs[b].pc = "ddl"
    /\ \E ok \in BOOLEAN :
         mongo' = IF ok THEN [mongo EXCEPT !.bs[b].pc = "resolved"] ELSE Evict(mongo, b)
    /\ UNCHANGED <<fileVars, bootVars, confVars, lifeVars, moreVars, twin, iso, kind, items, disk, rows,
                   docs, validator, used, clock, last, tasks>>

\* await collection() returns the collection, on which the call is made, or
\* throws
ClientAwaitSettles(j) ==
    /\ tasks[j].pc = "await"
    /\ LET b == mongo.bs[tasks[j].awaits] IN
       /\ b.pc \in {"resolved", "rejected"}
       /\ tasks' = [tasks EXCEPT ![j].pc = "done", ![j].got = b.got,
                                 ![j].res = IF b.pc = "rejected" THEN "thrown" ELSE "ok"]
    /\ UNCHANGED <<fileVars, bootVars, confVars, lifeVars, moreVars, twin, iso, kind, items, disk, rows,
                   docs, validator, used, clock, last, mongo>>

\* adapter.dispose() up to its await
ClientDispose(j) ==
    /\ MayStart(j)
    /\ tasks[j].op = "dispose"
    /\ IF mongo.client = 0
       THEN /\ tasks' = [tasks EXCEPT ![j].pc = "done", ![j].res = "ok"]
            /\ UNCHANGED mongo
       ELSE /\ mongo' = [mongo EXCEPT !.closes[mongo.client] = @ + 1]
            /\ tasks' = [tasks EXCEPT ![j].pc = "closing", ![j].mine = mongo.client]
    /\ UNCHANGED <<fileVars, bootVars, confVars, lifeVars, moreVars, twin, iso, kind, items, disk, rows,
                   docs, validator, used, clock, last>>

\* adapter.dispose() after its await: the finally block
ClientDisposeSettles(j) ==
    /\ tasks[j].pc = "closing"
    /\ tasks[j].op = "dispose"
    /\ mongo' = [connectCaught(mongo) EXCEPT !.cache = [e \in Entities |-> 0]]
    /\ tasks' = [tasks EXCEPT ![j].pc = "done", ![j].res = "ok"]
    /\ UNCHANGED <<fileVars, bootVars, confVars, lifeVars, moreVars, twin, iso, kind, items, disk, rows,
                   docs, validator, used, clock, last>>

InitClient(seq) ==
    /\ kind = "mongodb"
    /\ items = <<>>
    /\ disk = NoFile
    /\ rows = {}
    /\ docs = {}
    /\ validator = FALSE
    /\ used = {}
    /\ clock = 1
    /\ last = NoCall
    /\ FileInit
    /\ BootInit
    /\ ConfInit
    /\ LifeInit
    /\ MoreInit
    /\ mongo = [MongoIdle EXCEPT !.seq = seq]
    /\ twin = TwinIdle
    /\ iso = IsoIdle
    /\ tasks \in [Jobs -> {ClientJob(c, "start", 0, 0, 0, "none") : c \in LifeOps}]

NextClient ==
    \/ \E j \in Jobs :
          \/ ClientInit(j)
          \/ ClientInitConnects(j)
          \/ ClientInitCaught(j)
          \/ ClientEnsureCollection(j)
          \/ ClientAwaitSettles(j)
          \/ ClientDispose(j)
          \/ ClientDisposeSettles(j)
    \/ \E b \in Attempts :
          \/ ClientBootstrapConnects(b)
          \/ ClientBootstrapCaught(b)
          \/ ClientBootstrapCommands(b)

InitConnect == InitClient(TRUE)

\* connect(), init(), store calls and dispose() one after another
SpecConnect == InitConnect /\ [][NextClient]_vars

InitOverlap == InitClient(FALSE)

\* the same calls interleaved at their awaits
SpecOverlap == InitOverlap /\ [][NextClient]_vars

(***************************************************************************)
(* The memory store and the file store side by side: every call is made on *)
(* both, with the same id from randomUUID() and the same clock reading.    *)
(* The file store runs on items / disk, the memory store on twin.          *)
(***************************************************************************)
\* createInMemoryStore(): the method op on the Map m; the Map it leaves and
\* what it returns
InMemoryStore(m, op, id, payload, now) ==
    CASE op = "getAll" -> [items |-> m, res |-> List(m)]
      [] op = "getById" ->
            [items |-> m, res |-> IF MapHas(m, id) THEN Found(MapGet(m, id)) ELSE Absent]
      [] op = "create" ->
            LET item == NewItem(id, now, payload) IN
            [items |-> MapSet(m, item), res |-> Found(item)]
      [] op = "update" ->
            IF ~MapHas(m, id) THEN [items |-> m, res |-> Absent]
            ELSE LET updated == UpdatedItem(MapGet(m, id), payload, now) IN
                 [items |-> MapSet(m, updated), res |-> Found(updated)]
      [] op = "delete" -> [items |-> MapDelete(m, id), res |-> Bool(MapHas(m, id))]

\* a file store whose update puts the record at the end of the Map
JsonFileStoreReinserts(m, d, op, id, payload, now) ==
    LET a == InMemoryStore(m, op, id, payload, now)
        n == IF op = "update" /\ MapHas(m, id)
             THEN Append(MapDelete(m, id), a.res.val) ELSE a.items IN
    [items |-> n, disk |-> IF n = m THEN d ELSE flush(n), res |-> a.res]

\* createJsonFileStore(opts): the method op on the Map m and the file d
JsonFileStore(m, d, op, id, payload, now) ==
    CASE op = "getAll" -> [items |-> m, disk |-> d, res |-> List(m)]
      [] op = "getById" ->
            [items |-> m, disk |-> d,
             res |-> IF MapHas(m, id) THEN Found(MapGet(m, id)) ELSE Absent]
      [] op = "create" ->
            LET item == NewItem(id, now, payload) IN
            [items |-> MapSet(m, item), disk |-> flush(MapSet(m, item)), res |-> Found(item)]
      [] op = "update" ->
            IF ~MapHas(m, id) THEN [items |-> m, disk |-> d, res |-> Absent]
            ELSE LET updated == UpdatedItem(MapGet(m, id), payload, now) IN
                 [items |-> MapSet(m, updated), disk |-> flush(MapSet(m, updated)),
                  res |-> Found(updated)]
      [] op = "delete" ->
            LET didDelete == MapHas(m, id) IN
            [items |-> MapDelete(m, id),
             disk |-> IF didDelete THEN flush(MapDelete(m, id)) ELSE d,
             res |-> Bool(didDelete)]

\* one call made on both stores
OnBoth(op, id, payload, now) ==
    LET a == InMemoryStore(twin.items, op, id, payload, now)
        b == JsonFileStore(items, disk, op, id, payload, now) IN
    /\ twin' = [items |-> a.items, res |-> a.res]
    /\ items' = b.items
    /\ disk' = b.disk
    /\ last' = Call(op, IF op = "create" THEN 0 ELSE id, payload, b.res)

TwinGetAll ==
    /\ OnBoth("getAll", 0, NonObject, clock)
    /\ UNCHANGED <<fileVars, bootVars, confVars, lifeVars, moreVars, mongo, iso, kind, rows, docs,
                   validator, used, clock, tasks>>

TwinGetById ==
    /\ \E id \in LookupIds : OnBoth("getById", id, NonObject, clock)
    /\ UNCHANGED <<fileVars, bootVars, confVars, lifeVars, moreVars, mongo, iso, kind, rows, docs,
                   validator, used, clock, tasks>>

TwinCreate ==
    /\ \E payload \in Payloads(kind), now \in nowIso(clock), id \in randomUUID(used) :
         /\ OnBoth("create", id, payload, now)
         /\ used' = used \cup {id}
         /\ clock' = now
    /\ UNCHANGED <<fileVars, bootVars, confVars, lifeVars, moreVars, mongo, iso, kind, rows, docs,
                   validator, tasks>>

TwinUpdate ==
    /\ \E id \in LookupIds, payload \in Payloads(kind), now \in nowIso(clock) :
         /\ OnBoth("update", id, payload, now)
         /\ clock' = IF MapHas(items, id) \/ MapHas(twin.items, id) THEN now ELSE clock
    /\ UNCHANGED <<fileVars, bootVars, confVars, lifeVars, moreVars, mongo, iso, kind, rows, docs,
                   validator, used, tasks>>

TwinDelete ==
    /\ \E id \in LookupIds : OnBoth("delete", id, NonObject, clock)
    /\ UNCHANGED <<fileVars, bootVars, confVars, lifeVars, moreVars, mongo, iso, kind, rows, docs,
                   validator, used, clock, tasks>>

InitTwin ==
    /\ kind = "json"
    /\ items = <<>>
    /\ disk = NoFile
    /\ rows = {}
    /\ docs = {}
    /\ validator = FALSE
    /\ used = {}
    /\ clock = 1
    /\ last = NoCall
    /\ tasks = [t \in Tasks |-> IdleTask]
    /\ AuxInit

NextTwin ==
    \/ TwinGetAll
    \/ TwinGetById
    \/ TwinCreate
    \/ TwinUpdate
    \/ TwinDelete

SpecTwin == InitTwin /\ [][NextTwin]_vars

(***************************************************************************)
(* Two registered models and the stores one adapter returns for them: a    *)
(* record is created through the first model's store, then the second      *)
(* model's store is read.                                                  *)
(***************************************************************************)
\* base.replace(/[^a-z0-9_]/g, "_")
replaceNonLowerWord(s) ==
    [i \in 1..Len(s) |-> IF s[i] \in LowerCase \cup Digits \cup {"_"} THEN s[i] ELSE "_"]

modelToCollectionName(name) == replaceNonLowerWord(toLowerCase(name) \o <<"s">>)

\* const key = model.name.toLowerCase()
storeKey(name) == toLowerCase(name)

\* where the store that getCrudStore(model) returns keeps its records: the
\* key of the Map of stores (memory), the file `${key}.json` (json-file),
\* the table (postgres, when both identifiers pass), the collection (mongodb)
StorageOf(k, name) ==
    CASE k = "memory" -> [ok |-> TRUE, place |-> storeKey(name)]
      [] k = "json" -> [ok |-> TRUE, place |-> storeKey(name) \o <<".", "j", "s", "o", "n">>]
      [] k = "postgres" ->
            [ok |-> safeIdentifier(modelToTableName(name)).ok,
             place |-> safeIdentifier(modelToTableName(name)).ident]
      [] k = "mongodb" -> [ok |-> TRUE, place |-> modelToCollectionName(name)]

\* registerModel(model), twice: modelsByName is keyed by the name as given
registerModel ==
    /\ iso.pc = "defined"
    /\ iso' = [iso EXCEPT !.pc = "registered", !.registered = {iso.first, iso.second}]
    /\ UNCHANGED <<storeVars, fileVars, bootVars, confVars, lifeVars, moreVars, mongo, twin>>

\* adapter.getCrudStore(model) for both models
IsoGetCrudStore ==
    /\ iso.pc = "registered"
    /\ LET a == StorageOf(kind, iso.first)
           b == StorageOf(kind, iso.second) IN
       iso' = IF a.ok /\ b.ok
              THEN [iso EXCEPT !.pc = "built", !.places = <<a.place, b.place>>]
              ELSE [iso EXCEPT !.pc = "thrown"]
    /\ UNCHANGED <<storeVars, fileVars, bootVars, confVars, lifeVars, moreVars, mongo, twin>>

\* create(payload) on the first model's store
IsoCreate ==
    /\ iso.pc = "built"
    /\ iso' = [iso EXCEPT !.pc = "created", !.holds = {iso.places[1]}]
    /\ UNCHANGED <<storeVars, fileVars, bootVars, confVars, lifeVars, moreVars, mongo, twin>>

\* getAll() on the second model's store: the record is in the list or not
IsoGetAll ==
    /\ iso.pc = "created"
    /\ iso' = [iso EXCEPT !.pc = "read", !.listed = iso.places[2] \in iso.holds]
    /\ UNCHANGED <<storeVars, fileVars, bootVars, confVars, lifeVars, moreVars, mongo, twin>>

InitIso ==
    /\ kind \in Backends
    /\ items = <<>>
    /\ disk = NoFile
    /\ rows = {}
    /\ docs = {}
    /\ validator = FALSE
    /\ used = {}
    /\ clock = 1
    /\ last = NoCall
    /\ tasks = [t \in Tasks |-> IdleTask]
    /\ FileInit
    /\ BootInit
    /\ ConfInit
    /\ LifeInit
    /\ MoreInit
    /\ mongo = MongoIdle
    /\ twin = TwinIdle
    /\ iso \in {[pc |-> "defined", first |-> p[1], second |-> p[2], registered |-> {},
                 places |-> <<>>, holds |-> {}, listed |-> FALSE] :
                   p \in {q \in Names \X Names : q[1] # q[2]}}

NextIso ==
    \/ registerModel
    \/ IsoGetCrudStore
    \/ IsoCreate
    \/ IsoGetAll

SpecIso == InitIso /\ [][NextIso]_vars

(***************************************************************************)
(* Properties of the store contract                                        *)
(***************************************************************************)
\* the fields of a body other than id / createdAt / updatedAt
ClientFields(payload) ==
    IF payload.obj THEN Restrict(payload.f, (DOMAIN payload.f) \ ReservedKeys) ELSE EmptyObj

DataFields(item) == Restrict(item, (DOMAIN item) \ ReservedKeys)

Created == last.op = "create" /\ last.res.tag = "item"

CreateKeepsDeclaredFieldsOnly ==
    Created => DataFields(last.res.val) = Restrict(ClientFields(last.payload), SchemaKeys)

\* C2 amended: on the document store the non-reserved fields of the record
\* returned and stored by create are exactly the declared schema fields the body
\* carries with a non-null value; on the memory, file and relational stores they
\* are all the non-reserved fields of the body, declared or not, null or not.
CreateFieldsPerBackend ==
    Created =>
        LET r == last.res.val
            body == ClientFields(last.payload) IN
        /\ kind = "mongodb" =>
              DataFields(r) = Restrict(body, {k \in SchemaKeys \cap DOMAIN body : body[k] # "null"})
        /\ kind # "mongodb" => DataFields(r) = body
        /\ \E i \in 1..Len(getAll.val) : getAll.val[i] = r

CreateFieldsPerBackendWitness ==
    /\ Created
    /\ "x" \in DOMAIN last.payload.f
    /\ kind = "mongodb"
    /\ "x" \notin DOMAIN last.res.val

\* C3: right after create returned a record, getById of the returned id yields a
\* record equal to the one create returned.
CreateThenGetById ==
    Created => getById(last.res.val["id"]) = Found(last.res.val)

CreateThenGetByIdWitness ==
    /\ Created
    /\ getById(last.res.val["id"]).tag = "item"
    /\ DataFields(last.res.val) # EmptyObj


Updated == last.op = "update" /\ last.res.tag = "item"

\* what the document store applies of a body: the declared fields with a value
SetFields(body) == Restrict(body, {k \in SchemaKeys \cap DOMAIN body : body[k] # "null"})

\* and the declared fields it removes
UnsetKeys(body) == {k \in SchemaKeys \cap DOMAIN body : body[k] = "null"}

\* C4 as stated: on every backend update makes every (non-reserved) field of the
\* body a field of the record with the body's value, keeps every other field,
\* and keeps the id.
UpdateTakesEveryField ==
    [][\A id \in LookupIds :
         (last'.op = "update" /\ last'.id = id /\ last'.res.tag = "item") =>
            LET old == getById(id).val
                r == last'.res.val
                body == ClientFields(last'.payload) IN
            /\ \A k \in DOMAIN body : k \in DOMAIN r /\ r[k] = body[k]
            /\ \A k \in (DOMAIN old) \ (DOMAIN body \cup {"updatedAt"}) :
                   k \in DOMAIN r /\ r[k] = old[k]
            /\ r["id"] = id]_vars

\* C4 amended: update of an existing record is a shallow merge of the fields the
\* backend applies: on the memory, file and relational stores every non-reserved
\* field of the body takes the body's value (null included); on the document
\* store every declared field the body gives a non-null value takes that value,
\* every declared field the body sets to null is removed, and undeclared fields
\* are ignored. Every other field but updatedAt keeps its value, id and
\* createdAt are unchanged, and the merged record is what the store then holds.
UpdateMergesPerBackend ==
    [][\A id \in LookupIds :
         (last'.op = "update" /\ last'.id = id /\ last'.res.tag = "item") =>
            LET old == getById(id).val
                r == last'.res.val
                body == ClientFields(last'.payload)
                applied == IF kind = "mongodb" THEN SetFields(body) ELSE body
                removed == IF kind = "mongodb" THEN UnsetKeys(body) ELSE {} IN
            /\ getById(id).tag = "item"
            /\ DOMAIN r = ((DOMAIN old) \cup (DOMAIN applied)) \ removed
            /\ \A k \in DOMAIN applied : r[k] = applied[k]
            /\ \A k \in (DOMAIN r) \ (DOMAIN applied \cup {"updatedAt"}) : r[k] = old[k]
            /\ r["id"] = id
            /\ getById(id)' = Found(r)]_vars

UpdateMergesPerBackendWitness ==
    /\ Updated
    /\ DOMAIN ClientFields(last.payload) = {"b"}
    /\ last.payload.f["b"] = "n2"
    /\ "a" \in DOMAIN last.res.val
    /\ last.res.val["b"] = "n2"

\* C5 as stated: on the memory, file and document stores every successful update
\* returns an updatedAt strictly later than the one the record had.
UpdateStrictlyLater ==
    [][\A id \in LookupIds :
         (last'.op = "update" /\ last'.id = id /\ last'.res.tag = "item"
            /\ kind \in {"memory", "json", "mongodb"}) =>
            last'.res.val["updatedAt"] > getById(id).val["updatedAt"]]_vars

\* C5 amended: under a clock that does not run backwards, every successful
\* update on the memory, file and document stores returns as updatedAt the clock
\* reading the update took, which is never earlier than the updatedAt the record
\* had nor than its createdAt, and is strictly later exactly when the clock has
\* advanced since (two calls within one millisecond carry the same updatedAt).
UpdateNotEarlier ==
    [][\A id \in LookupIds :
         (last'.op = "update" /\ last'.id = id /\ last'.res.tag = "item"
            /\ kind \in {"memory", "json", "mongodb"}) =>
            LET before == getById(id).val["updatedAt"]
                r == last'.res.val IN
            /\ r["updatedAt"] = clock'
            /\ r["updatedAt"] >= before
            /\ r["updatedAt"] >= r["createdAt"]
            /\ (r["updatedAt"] > before) = (clock' > before)]_vars

UpdateNotEarlierWitness ==
    /\ Updated
    /\ kind \in {"memory", "json", "mongodb"}
    /\ last.res.val["updatedAt"] > last.res.val["createdAt"]

\* C6: on the document store update issues one find-and-update whose set part is
\* the declared fields the body gives a non-null value and whose unset part is
\* the declared fields the body sets to null, the two being disjoint; the record
\* it returns has every set field with the body's value, no unset field, and the
\* update's clock reading as updatedAt, and is the stored document; nothing is
\* applied when the server refuses the update; the result is absent, and no
\* document changes, when no document matches.
DocumentUpdateSetsAndUnsets ==
    [][\A id \in LookupIds :
         (kind = "mongodb" /\ last'.op = "update" /\ last'.id = id) =>
            LET body == ClientFields(last'.payload)
                patch == splitStructuredPatch(last'.payload)
                r == last'.res.val IN
            /\ patch.set = SetFields(body)
            /\ patch.unset = UnsetKeys(body)
            /\ (DOMAIN patch.set) \cap patch.unset = {}
            /\ last'.res.tag = "item" =>
                  /\ \A k \in DOMAIN SetFields(body) : r[k] = body[k]
                  /\ \A k \in UnsetKeys(body) : k \notin DOMAIN r
                  /\ r["updatedAt"] = clock'
                  /\ FindById(id).tag = "item"
                  /\ FindById(id)' = Found(r)
                  /\ \A other \in LookupIds \ {id} : FindById(other)' = FindById(other)
            /\ last'.res.tag = "error" => (docs' = docs /\ validator)
            /\ FindById(id) = Absent => (last'.res = Absent /\ docs' = docs)]_vars

DocumentUpdateSetsAndUnsetsWitness ==
    /\ kind = "mongodb"
    /\ Updated
    /\ DOMAIN SetFields(ClientFields(last.payload)) = {"a"}
    /\ UnsetKeys(ClientFields(last.payload)) = {"b"}
    /\ "b" \notin DOMAIN last.res.val

\* C7: delete returns true exactly when a record with the id was stored, and it
\* never throws; afterwards the record is absent from getById and from getAll
\* and every other record is as it was; a delete of the same id right after a
\* delete returns false.
DeleteReportsRemoval ==
    [][\A id \in LookupIds :
         (last'.op = "delete" /\ last'.id = id) =>
            /\ last'.res = Bool(getById(id).tag = "item")
            /\ getById(id)' = Absent
            /\ \A i \in 1..Len(getAll'.val) : getAll'.val[i]["id"] # id
            /\ \A other \in LookupIds \ {id} : getById(other)' = getById(other)
            /\ (last.op = "delete" /\ last.id = id) => last'.res = Bool(FALSE)]_vars

DeleteReportsRemovalWitness ==
    /\ last.op = "delete"
    /\ last.res = Bool(TRUE)
    /\ Len(getAll.val) = 1

\* C8: for an id no stored record has, getById and update return absent and
\* delete returns false, none throws, and the store (for the file store also the
\* file on disk) is left as it was: update never creates a record.
NotFoundLeavesStore ==
    [][\A id \in LookupIds :
         (last'.op \in {"getById", "update", "delete"} /\ last'.id = id
            /\ getById(id) = Absent) =>
            /\ last'.res = (IF last'.op = "delete" THEN Bool(FALSE) ELSE Absent)
            /\ UNCHANGED <<items, disk, rows, docs>>]_vars

NotFoundLeavesStoreWitness ==
    /\ last.op = "update"
    /\ last.res = Absent
    /\ last.id \in IdPool
    /\ last.payload.obj
    /\ Len(getAll.val) = 1

\* C9: on the document store, getById and update of an id string that does not
\* parse into an ObjectId return absent, and delete of it returns false; none
\* of them throws.
MalformedIdIsNotFound ==
    (kind = "mongodb" /\ last.id \notin IdPool) =>
        /\ last.op \in {"getById", "update"} => last.res = Absent
        /\ last.op = "delete" => last.res = Bool(FALSE)

MalformedIdIsNotFoundWitness ==
    /\ kind = "mongodb"
    /\ last.id \notin IdPool
    /\ last.op = "update"
    /\ last.payload.obj
    /\ docs # {}

Returned == {t \in Tasks : tasks[t].pc = "done" /\ tasks[t].res.tag = "item"}

WholeUpdate(data, payload) ==
    IF kind = "mongodb"
    THEN LET patch == splitStructuredPatch(payload)
             assigned == Spread(data, patch.set) IN
         Restrict(assigned, (DOMAIN assigned) \ patch.unset)
    ELSE Spread(data, sanitizeClientPayload(payload))

\* the bodies of the update calls aimed at an id
PatchesFor(id) == {tasks[j].payload : j \in {i \in Jobs : tasks[i].op = "update" /\ tasks[i].id = id}}

RECURSIVE WholeUpdates(_, _, _)
WholeUpdates(S, patches, n) ==
    IF n = 0 THEN S
    ELSE WholeUpdates(S \cup {WholeUpdate(d, p) : d \in S, p \in patches}, patches, n - 1)

\* every record a call can see or has been handed: the stored ones and the
\* results held by the calls
Observed ==
    {getById(id).val : id \in {i \in IdPool : getById(i).tag = "item"}}
    \cup {tasks[j].res.val : j \in {i \in Jobs : tasks[i].pc \in {"replied", "done"}
                                                /\ tasks[i].res.tag = "item"}}

\* the record the create call stored
CreatedBy(j) ==
    IF kind = "mongodb" /\ tasks[j].pc = "sent" THEN docToCrudItem(tasks[j].res.val)
    ELSE tasks[j].res.val

Creators(id) == {j \in Jobs : tasks[j].op = "create" /\ tasks[j].id = id
                              /\ tasks[j].res.tag = "item"}

\* C11: when create, update and delete calls aimed at one id interleave at
\* their awaits, every record stored or returned is the created record with
\* zero or more whole updates applied (same id and createdAt, data fields
\* reachable from the created ones by whole bodies), and once a delete has
\* removed a record no call brings it back.
WritesAreAtomic ==
    /\ \A r \in Observed :
         \E j \in Creators(r["id"]) :
            /\ r["createdAt"] = CreatedBy(j)["createdAt"]
            /\ DataFields(r) \in WholeUpdates({DataFields(CreatedBy(j))}, PatchesFor(r["id"]), MaxJobs)
    /\ \A j \in Jobs :
         (tasks[j].op = "delete" /\ tasks[j].res = Bool(TRUE)) => getById(tasks[j].id) = Absent

\* two updates and the create have completed on one record
WritesAreAtomicWitness ==
    /\ \A j \in Jobs : tasks[j].pc = "done"
    /\ \E i, j \in Jobs :
         /\ i # j
         /\ tasks[i].op = "update" /\ tasks[j].op = "update"
         /\ tasks[i].payload # tasks[j].payload
         /\ tasks[i].res.tag = "item" /\ tasks[j].res.tag = "item"
         /\ tasks[i].res.val["id"] = tasks[j].res.val["id"]

\* C12: at every step of a rewrite of the entity's file, and after the
\* process was killed at any of them, the file is what it was before the
\* rewrite or the complete new document, never a partly written one, and a
\* file that could be parsed before can still be parsed.
FileNeverPartial ==
    /\ disk \in {proc.prev, proc.next}
    /\ "cut" \notin DOMAIN disk
    /\ JSONparses(proc.prev) => JSONparses(disk)

\* the process was killed between writing the temporary file and the rename
FileNeverPartialWitness ==
    /\ proc.pc = "down"
    /\ temp = proc.next
    /\ disk = proc.prev
    /\ proc.prev # proc.next
    /\ proc.prev.exists

\* C13: whenever no call is running, loading the entity's file yields the
\* index of the running store (so a store constructed on the same path
\* answers getAll and getById alike), and a file the store has written holds
\* exactly the records of the index, in the order of getAll.
FileHoldsIndex ==
    proc.pc = "idle" =>
        /\ MapOf(loadPersistedData(disk).items) = items
        /\ disk \notin InitialFiles => disk = PersistedCrudData(items)
        /\ ~disk.exists => items = <<>>

\* a create, an update and a delete have been written, one record remains
FileHoldsIndexWitness ==
    /\ proc.pc = "idle"
    /\ last.op = "delete" /\ last.res = Bool(TRUE)
    /\ Len(items) = 1
    /\ items[1]["updatedAt"] > items[1]["createdAt"]
    /\ disk = PersistedCrudData(items)

IdsOf(list) == [i \in 1..Len(list) |-> list[i]["id"]]

Ascending(ids) == \A i, j \in 1..Len(ids) : i < j => ids[i] < ids[j]

\* the records getById finds
Stored == {getById(id).val : id \in {i \in LookupIds : getById(i).tag = "item"}}

\* the list holds each stored record, as getById returns it, exactly once
IsSnapshot(list, stored) ==
    /\ Len(list) = Cardinality(stored)
    /\ {list[i] : i \in 1..Len(list)} = stored

\* C15 as stated: on every backend getAll() returns each stored record
\* exactly once, ordered by ascending id.
GetAllAscendingEverywhere ==
    LET list == getAll.val IN
    /\ IsSnapshot(list, Stored)
    /\ Ascending(IdsOf(list))

\* C15: every getAll() returns each stored record exactly once; on the
\* Relational and Document adapters ordered by ascending id, on the Memory
\* and File stores in the order of creation: a create appends its record to
\* what getAll returns, an update keeps every position, a delete takes its
\* record out.
GetAllOrderPerBackend ==
    [][/\ last'.op = "getAll" =>
            /\ IsSnapshot(last'.res.val, Stored')
            /\ kind \in {"postgres", "mongodb"} => Ascending(IdsOf(last'.res.val))
       /\ kind \in {"memory", "json"} =>
            LET before == IdsOf(getAll.val)
                after == IdsOf(getAll.val') IN
            after = IF last'.op = "create" /\ last'.res.tag = "item"
                    THEN Append(before, last'.res.val["id"])
                    ELSE IF last'.op = "delete"
                    THEN SelectSeq(before, LAMBDA id : id # last'.id)
                    ELSE before]_vars

\* getAll returned two records of which the one created first has the larger id
GetAllOrderPerBackendWitness ==
    /\ last.op = "getAll"
    /\ Len(last.res.val) = 2
    /\ last.res.val[1]["id"] > last.res.val[2]["id"]
    /\ last.res.val[1]["createdAt"] < last.res.val[2]["createdAt"]

\* C16: on every store and in every step, a record that stays stored keeps
\* its id and createdAt; the record found under an id carries that id and
\* an updatedAt not before its createdAt; and a successful update, whatever
\* its body contains, returns the stored record with the id and createdAt it
\* had and with updatedAt set to the update's reading of the clock.
IdentityIsStable ==
    [][\A id \in LookupIds :
         LET before == getById(id)
             after == getById(id)' IN
         /\ (before.tag = "item" /\ after.tag = "item") =>
               /\ after.val["id"] = before.val["id"]
               /\ after.val["createdAt"] = before.val["createdAt"]
         /\ after.tag = "item" =>
               /\ after.val["id"] = id
               /\ after.val["updatedAt"] >= after.val["createdAt"]
         /\ (last'.op = "update" /\ last'.id = id /\ last'.res.tag = "item") =>
               /\ before.tag = "item"
               /\ last'.res = after
               /\ last'.res.val["id"] = id
               /\ last'.res.val["createdAt"] = before.val["createdAt"]
               /\ last'.res.val["updatedAt"] = clock']_vars

\* an update whose body carried an id and timestamps of its own succeeded,
\* after the clock had advanced
IdentityIsStableWitness ==
    /\ last.op = "update"
    /\ last.res.tag = "item"
    /\ last.payload.obj
    /\ ReservedKeys \subseteq DOMAIN last.payload.f
    /\ last.res.val["updatedAt"] > last.res.val["createdAt"]

\* the bootstraps in flight
Running(b) == {a \in Attempts : b.state[a] = "running"}

\* C17: at most one bootstrap of the entity is in flight, it is the cached
\* one, and every call waiting for a bootstrap in flight waits for that one;
\* as long as no bootstrap has failed only one is ever started; and once the
\* cached bootstrap has succeeded, no call starts another or changes the
\* cache.
BootstrapOnce ==
    [][/\ Cardinality(Running(boot')) <= 1
       /\ \A a \in Running(boot') : boot'.memo = a
       /\ \A j \in Jobs :
            (tasks'[j].pc = "await" /\ tasks'[j].awaits \in Running(boot')) =>
                tasks'[j].awaits = boot'.memo
       /\ (\A a \in Attempts : boot'.state[a] # "rejected") => Started(boot') <= 1
       /\ (boot.memo # 0 /\ boot.state[boot.memo] = "resolved") => boot' = boot]_vars

\* every call started before the bootstrap finished and waits for the one
\* bootstrap in flight
BootstrapOnceWitness ==
    /\ Started(boot) = 1
    /\ boot.state[1] = "running"
    /\ Len(boot.todo[1]) = 1
    /\ \A j \in Jobs : tasks[j].pc = "await" /\ tasks[j].awaits = 1

\* C18: a failed bootstrap is no longer cached; a call that waited for it
\* rejects; a bootstrap is started only by a call that finds no cached one,
\* one per call and numbered next, never by the store itself; and a call
\* only proceeds on a bootstrap that succeeded.
FailedBootstrapRetriedByNextCall ==
    [][/\ \A a \in Attempts : boot'.state[a] = "rejected" => boot'.memo # a
       /\ \A j \in Jobs :
            /\ (tasks[j].pc = "await" /\ boot.state[tasks[j].awaits] = "rejected"
                  /\ tasks'[j] # tasks[j]) => tasks'[j].pc = "rejected"
            /\ tasks'[j].boots <= 1
            /\ (tasks[j].pc = "start" /\ tasks'[j].pc = "await" /\ boot.memo = 0) =>
                  /\ Started(boot') = Started(boot) + 1
                  /\ tasks'[j].awaits = Started(boot')
                  /\ boot'.state[tasks'[j].awaits] = "running"
            /\ tasks'[j].pc = "run" => boot'.state[tasks'[j].awaits] = "resolved"
       /\ Started(boot') # Started(boot) =>
            /\ Started(boot') = Started(boot) + 1
            /\ boot.memo = 0
            /\ \E j \in Jobs :
                 /\ tasks[j].pc = "start"
                 /\ tasks'[j] = Caller("await", Started(boot'), 1)]_vars

\* the first bootstrap failed and a call that waited for it was rejected; the
\* call issued next started the second one, which succeeded and lets it run
FailedBootstrapRetriedByNextCallWitness ==
    /\ boot.state[1] = "rejected"
    /\ boot.state[2] = "resolved"
    /\ boot.memo = 2
    /\ \E i, j \in Jobs :
         /\ tasks[i] = Caller("rejected", 1, 0)
         /\ tasks[j] = Caller("run", 2, 1)

\* the name between the quotes of an identifier
Unquote(ident) == SubSeq(ident, 2, Len(ident) - 1)

\* ^[A-Za-z_][A-Za-z0-9_]*$
MatchesAllowList(name) ==
    /\ name # <<>>
    /\ Head(name) \notin Digits
    /\ \A i \in 1..Len(name) : name[i] \in LowerCase \cup UpperCase \cup Digits \cup {"_"}

\* C19: every schema and table name inside a statement the Postgres adapter
\* has sent matches ^[A-Za-z_][A-Za-z0-9_]*$; and when the configured schema
\* or the table name derived from the model fails the pattern, getCrudStore
\* has thrown instead of returning a store, and no statement was sent at all.
IdentifiersAreSafe ==
    /\ \A st \in sql.issued : \A i \in 1..Len(st.idents) : MatchesAllowList(Unquote(st.idents[i]))
    /\ sql.store # "none" =>
         LET bad == \/ ~MatchesAllowList(SchemaOf(sql))
                    \/ ~MatchesAllowList(modelToTableName(sql.model)) IN
         /\ bad => sql.store = "thrown" /\ sql.issued = {}
         /\ ~bad => sql.store = "built"

\* getCrudStore has thrown for a model whose name starts with a digit, under
\* a schema that passes the pattern
IdentifiersAreSafeWitness ==
    /\ sql.store = "thrown"
    /\ sql.model # <<>>
    /\ Head(sql.model) \in Digits
    /\ MatchesAllowList(SchemaOf(sql))

\* a source provides a setting when it holds a non-empty value
Provides(v) == v \in {"value", "other"}

\* C20 as stated: for postgres and mongodb createDbAdapter throws exactly
\* when a required setting (the connection string; for mongodb also the
\* database name) is provided neither by the explicit config nor by its
\* environment variable; the error names that setting and both sources.
ConfigErrorIffNoSourceProvides ==
    (factory.out # NotCalled /\ factory.adapter \in {"postgres", "mongodb"}) =>
        LET noUrl == ~Provides(factory.connectionString) /\ ~Provides(factory.envUrl)
            noDb == /\ factory.adapter = "mongodb"
                    /\ ~Provides(factory.dbName) /\ ~Provides(factory.envDb) IN
        /\ factory.out.tag = "error" <=> (noUrl \/ noDb)
        /\ factory.out.tag = "error" =>
             \/ /\ noUrl
                /\ factory.out.setting = "connection string"
                /\ factory.out.sources \in {{"db.postgres.connectionString", "DATABASE_URL"},
                                            {"db.mongodb.connectionString", "MONGODB_URI"}}
             \/ /\ noDb
                /\ factory.out.setting = "database name"
                /\ factory.out.sources = {"db.mongodb.dbName", "MONGODB_DB"}

\* C20, what the factory does: the environment variable is read only when the
\* explicit setting is undefined, and the error is thrown when the value so
\* chosen is undefined or empty.
ConfigErrorIffChosenValueEmpty ==
    (factory.out # NotCalled /\ factory.adapter \in {"postgres", "mongodb"}) =>
        LET chosen(explicit, env) == IF explicit # "undefined" THEN explicit ELSE env
            noUrl == ~Provides(chosen(factory.connectionString, factory.envUrl))
            noDb == /\ factory.adapter = "mongodb"
                    /\ ~Provides(chosen(factory.dbName, factory.envDb)) IN
        /\ factory.out.tag = "error" <=> (noUrl \/ noDb)
        /\ factory.out.tag = "error" =>
             factory.out.setting = IF noUrl THEN "connection string" ELSE "database name"

\* the explicit connection string is empty, DATABASE_URL holds a value, and
\* createDbAdapter has thrown
EmptyConfigHidesEnvironment ==
    /\ factory.adapter = "postgres"
    /\ factory.connectionString = "empty"
    /\ factory.envUrl = "value"
    /\ factory.out.tag = "error"
    /\ factory.out.sources = {"db.postgres.connectionString", "DATABASE_URL"}

\* C21: the connection string (and for mongodb the database name) an adapter
\* is built with is the explicit config's value whenever the config holds
\* one, and the environment variable's value only when the config holds none.
ExplicitConfigWins ==
    (factory.out.tag = "adapter" /\ factory.out.setting \in {"postgres", "mongodb"}) =>
        /\ factory.out.cfg.connectionString =
             IF factory.connectionString # "undefined" THEN factory.connectionString
             ELSE factory.envUrl
        /\ factory.out.setting = "mongodb" =>
             factory.out.cfg.dbName =
               IF factory.dbName # "undefined" THEN factory.dbName ELSE factory.envDb

\* a mongodb adapter built from a config and an environment that both hold a
\* connection string, different ones, with the database name only in the
\* environment
ExplicitConfigWinsWitness ==
    /\ factory.out.tag = "adapter"
    /\ factory.out.setting = "mongodb"
    /\ factory.connectionString = "value"
    /\ factory.envUrl = "other"
    /\ factory.dbName = "undefined"
    /\ factory.out.cfg = [connectionString |-> "value", dbName |-> "other"]

\* C22: the adapter createDbAdapter returns has the kind its storage kind
\* determines: memory -> "memory", json -> "json-file", postgres ->
\* "postgres", mongodb -> "mongodb", none configured -> "memory"; memory,
\* json and the default never fail.
AdapterKindFollowsConfig ==
    factory.out # NotCalled =>
        /\ factory.adapter \in {"undefined", "memory"} =>
             factory.out.tag = "adapter" /\ factory.out.setting = "memory"
        /\ factory.adapter = "json" =>
             factory.out.tag = "adapter" /\ factory.out.setting = "json-file"
        /\ (factory.adapter \in {"postgres", "mongodb"} /\ factory.out.tag = "adapter") =>
             factory.out.setting = factory.adapter

\* createDbAdapter was called with adapter "json" and returned
AdapterKindFollowsConfigWitness ==
    /\ factory.adapter = "json"
    /\ factory.out.tag = "adapter"
    /\ factory.out.setting = "json-file"
    /\ kind = "json"

\* a dispose() call returns or throws in this step
DisposeCompletes(j) ==
    tasks[j].op = "dispose" /\ tasks[j].pc # "done" /\ tasks'[j].pc = "done"

\* C23 as stated: on the Relational and Document adapters end() / close() is
\* invoked at most once on every pool / client constructed, and no dispose()
\* call throws, also when a second dispose() starts while the first is still
\* closing.
DisposeIsOnceOnly ==
    kind \in {"postgres", "mongodb"} =>
        /\ \A p \in Pools : life.ends[p] <= 1
        /\ \A j \in Jobs : tasks[j].op = "dispose" => tasks[j].res # "thrown"

\* C23, what dispose() does: a call that finds the connection reference
\* cleared returns at once without touching the adapter; a call that finds it
\* set invokes end() / close() on it, whether or not another call already did.
DisposeChecksReferenceOnly ==
    [][\A j \in Jobs :
         (tasks[j].op = "dispose" /\ tasks[j].pc = "start" /\ tasks'[j].pc # "start") =>
            IF life.conn = 0
            THEN life' = life /\ tasks'[j].pc = "done" /\ tasks'[j].res = "ok"
            ELSE /\ life'.ends[life.conn] = life.ends[life.conn] + 1
                 /\ tasks'[j].pc = "closing"]_vars

\* two dispose() calls overlapped and end() / close() ran twice on one
\* connection
DisposeOverlapEndsTwice ==
    /\ kind = "postgres"
    /\ life.ends[1] = 2
    /\ \E i, j \in Jobs :
         /\ i # j
         /\ tasks[i].op = "dispose" /\ tasks[i].nth = 1
         /\ tasks[j].op = "dispose" /\ tasks[j].nth = 2 /\ tasks[j].res = "thrown"

\* C24 as stated: a cached Memory / File store and a cached bootstrap stay
\* as they are until a dispose; when a dispose() call on the Relational or
\* Document adapter completes, the connection reference is null and no
\* entity has a bootstrap memo entry.
DisposeReleasesBindings ==
    [][/\ \A j \in Jobs :
            DisposeCompletes(j) => life'.conn = 0 /\ \A e \in Entities : life'.memo[e] = 0
       /\ \A e \in Entities : life.stores[e] # 0 => life'.stores[e] = life.stores[e]
       /\ (\A j \in Jobs : tasks[j].op = "dispose" => tasks'[j].pc = "start") =>
            \A e \in Entities : life.memo[e] # 0 => life'.memo[e] = life.memo[e]]_vars

\* C24, what the adapters do: as stated for the Memory, File and Document
\* adapters; a dispose() of the Relational adapter clears the pool reference
\* and leaves every bootstrap memo entry in place.
DisposeReleasesMongoBindingsOnly ==
    [][/\ \A j \in Jobs :
            DisposeCompletes(j) =>
              /\ life'.conn = 0
              /\ kind = "mongodb" => \A e \in Entities : life'.memo[e] = 0
              /\ kind = "postgres" => life'.memo = life.memo
       /\ \A e \in Entities : life.stores[e] # 0 => life'.stores[e] = life.stores[e]
       /\ (\A j \in Jobs : tasks[j].op = "dispose" => tasks'[j].pc = "start") =>
            \A e \in Entities : life.memo[e] # 0 => life'.memo[e] = life.memo[e]]_vars

\* on the Relational adapter a store call on an entity, then dispose(), then
\* another store call on it: the second call ran on a new pool without a
\* second bootstrap
MemoSurvivesDispose ==
    /\ kind = "postgres"
    /\ StartedBoots(life) = 1
    /\ life.made = 2
    /\ \E i, j, k \in Jobs :
         /\ tasks[i].op = "call" /\ tasks[i].pc = "done" /\ tasks[i].conn = 1
         /\ tasks[j].op = "dispose" /\ tasks[j].pc = "done" /\ tasks[j].nth = 1
         /\ tasks[k].op = "call" /\ tasks[k].pc = "done" /\ tasks[k].conn = 2
         /\ tasks[k].e = tasks[i].e /\ tasks[k].res = "ok"

\* no dispose() call has begun
NotDisposed == \A j \in Jobs : tasks[j].op = "dispose" => tasks[j].pc = "start"

\* C30 as stated: until dispose, the Relational adapter has constructed at
\* most one pool, whatever the interleaving of init() and first store calls,
\* and every call and bootstrap that holds a pool holds that one.
PoolConstructedOnce ==
    (kind = "postgres" /\ NotDisposed) =>
        /\ life.made <= 1
        /\ \A j \in Jobs : tasks[j].conn \in {0, life.conn}
        /\ \A b \in Attempts : life.bs[b].conn \in {0, life.conn}

\* C30, what getPool() does: while the pool reference is set no pool is
\* constructed, and a pool is constructed only by a call that found the
\* reference null before it awaited the driver.
PoolConstructedOnlyIfUnsetAtCall ==
    [][kind = "postgres" =>
         /\ life'.made \in {life.made, life.made + 1}
         /\ life'.made = life.made + 1 =>
              /\ life'.conn = life'.made
              /\ \/ \E j \in Jobs : tasks[j].pc = "load" /\ tasks'[j].conn = life'.made
                 \/ \E b \in Attempts : life.bs[b].pc = "load" /\ life'.bs[b].conn = life'.made
         /\ \A j \in Jobs :
              (tasks[j].pc # "load" /\ tasks'[j].pc = "load") => life.conn = 0]_vars

\* init() and a first store call overlapped before any dispose: each
\* constructed a pool, and the store call's bootstrap holds the first one,
\* which the adapter no longer references
TwoPoolsConstructed ==
    /\ kind = "postgres"
    /\ NotDisposed
    /\ life.made = 2
    /\ life.conn = 2
    /\ \E j \in Jobs : tasks[j].op = "init" /\ tasks[j].conn = 2
    /\ \E b \in Attempts : life.bs[b].conn = 1

\* the backend calls the store call made that failed
Failures(f) == FailedCalls(f) \cap {f.made[i] : i \in 1..Len(f.made)}

\* the message names the backend kind, the entity and the operation, and
\* holds the driver's message
Carries(err, f) ==
    /\ \E i \in 1..Len(err) :
         err[i].prefix = Prefix /\ err[i].entity = f.entity /\ err[i].op = OpLabel(f.op)
    /\ \E i \in 1..Len(err) : err[i].text = f.msg

\* C25 as stated: a store call of the Relational or Document adapter during
\* which any backend call (connect, bootstrap, query) fails rejects with an
\* error naming backend kind, entity and operation and holding the
\* underlying message; a call returns a value only when no backend call
\* failed.
EveryBackendFailureRejects ==
    fail.pc = "done" =>
        IF Failures(fail) # {}
        THEN fail.res.tag = "error" /\ Carries(fail.res.val, fail)
        ELSE fail.res.tag # "error"

\* C25: the same for every backend call except the two best-effort steps of
\* the Document bootstrap (the create with validator, replaced by a plain
\* create, and collMod), whose failure is caught and does not fail the call.
FatalBackendFailureRejects ==
    fail.pc = "done" =>
        IF Failures(fail) \ BestEffort # {}
        THEN fail.res.tag = "error" /\ Carries(fail.res.val, fail)
        ELSE fail.res.tag # "error"

\* a first update on the Relational adapter whose bootstrap could not load
\* the driver: the message is wrapped by connect, ensure table and update(id)
FatalBackendFailureRejectsWitness ==
    /\ kind = "postgres"
    /\ fail.pc = "done"
    /\ fail.op = "update"
    /\ fail.point = "load"
    /\ fail.res.tag = "error"
    /\ Len(fail.res.val) = 4
    /\ fail.res.val[1].op = <<"update", "id">>
    /\ fail.res.val[4].text = fail.msg

\* the field holds a value of the type the schema declares
WellTyped(sch, record, key) ==
    key \in DOMAIN record /\ record[key] # "null" /\ TypeOf(record[key]) = sch[key].type

\* C28: validateInput returns no error exactly when the input is an object
\* whose required schema fields are all present, non-null and of their
\* declared type and whose optional schema fields are absent, null or of
\* their declared type; every error names a schema field, and fields the
\* schema does not declare change nothing; an input that is no object gives
\* the single error "body must be an object".
ValidInputHasNoErrors ==
    http.pc = "validated" =>
        LET sch == http.schema
            record == http.body.f IN
        /\ ~http.body.obj => http.errors = <<<<"body", "must be an object">>>>
        /\ http.errors = <<>> <=>
             /\ http.body.obj
             /\ \A key \in DOMAIN sch :
                  IF sch[key].isOptional
                  THEN key \notin DOMAIN record \/ record[key] = "null"
                          \/ WellTyped(sch, record, key)
                  ELSE WellTyped(sch, record, key)
        /\ http.body.obj =>
             /\ \A i \in 1..Len(http.errors) : http.errors[i][1] \in DOMAIN sch
             /\ http.errors = validateInput(sch, Obj(Restrict(record, DOMAIN sch)))

\* a body with the required string, the optional boolean and an undeclared
\* field passes
ValidInputHasNoErrorsWitness ==
    /\ http.pc = "validated"
    /\ http.errors = <<>>
    /\ http.body = Obj([a |-> "s1", b |-> "t1", x |-> "o1"])
    /\ http.schema = [a |-> [type |-> "string", isOptional |-> FALSE],
                      b |-> [type |-> "boolean", isOptional |-> TRUE]]

\* C26: for the request served in this step: GET list answers 200 with what
\* getAll returned; GET / PUT / DELETE by id answer 404 exactly when the
\* store returned absent / false; POST with a valid body answers 201 with
\* the created record; PUT on an existing id 200 with the updated record;
\* DELETE on an existing id 204; an id that is empty after trimming answers
\* 400 and no store method is called.
RoutesMapStoreResults ==
    [][http' # http =>
         LET r == http'
             valid == validateInput(schema, r.body) = <<>>
             stored == MapHas(items, r.raw.id) IN
         /\ (r.method = "GET" /\ r.raw = NoRaw) =>
              r.status = "200" /\ r.sent = List(items) /\ r.called = <<"getAll">>
         /\ (r.method \in {"GET", "PUT", "DELETE"} /\ r.raw # NoRaw) =>
              IF r.raw.blank
              THEN r.status = "400" /\ r.called = <<>> /\ items' = items /\ last' = last
              ELSE /\ r.status = "404" <=>
                        /\ r.called # <<>>
                        /\ last'.res \in {Absent, Bool(FALSE)}
                   /\ (~stored /\ (r.method # "PUT" \/ valid)) => r.status = "404"
                   /\ (stored /\ r.method = "GET") =>
                        r.status = "200" /\ r.sent = Found(MapGet(items, r.raw.id))
                   /\ (stored /\ r.method = "PUT" /\ valid) =>
                        /\ r.status = "200"
                        /\ r.sent = last'.res
                        /\ r.sent = Found(MapGet(items', r.raw.id))
                   /\ (stored /\ r.method = "DELETE") =>
                        r.status = "204" /\ ~MapHas(items', r.raw.id)
         /\ (r.method = "POST" /\ valid) =>
              /\ r.status = "201"
              /\ r.sent = last'.res
              /\ r.sent.tag = "item"
              /\ MapHas(items', r.sent.val["id"])
              /\ MapGet(items', r.sent.val["id"]) = r.sent.val]_vars

\* a PUT with a padded id of a stored record answered 200 with the updated
\* record
RoutesMapStoreResultsWitness ==
    /\ http.pc = "served"
    /\ http.method = "PUT"
    /\ http.raw.pad
    /\ http.status = "200"
    /\ http.sent = last.res
    /\ last.op = "update"
    /\ MapHas(items, http.raw.id)

\* C27: a POST or PUT whose body validateInput reports an error for (also a
\* PUT body that leaves out a required field) answers 400, calls neither
\* create nor update, and leaves the store's contents as they were.
InvalidBodyNeverReachesStore ==
    [][(http' # http /\ http'.method \in {"POST", "PUT"}
          /\ validateInput(schema, http'.body) # <<>>) =>
            /\ http'.status = "400"
            /\ http'.called = <<>>
            /\ items' = items
            /\ last' = last]_vars

\* a PUT on a stored record with a body that has the optional field only was
\* refused
InvalidBodyNeverReachesStoreWitness ==
    /\ http.pc = "served"
    /\ http.method = "PUT"
    /\ http.body = Obj([b |-> "n2"])
    /\ MapHas(items, http.raw.id)
    /\ ~http.raw.blank
    /\ http.status = "400"
    /\ http.sent = Rejected(<<<<"a", "is required">>>>)

\* start() has returned or thrown
StartSettled == app.pc \in {"failed", "listening"}

\* C29 as stated: when createApp is given a dbAdapter, start() generates the
\* CRUD stores on that adapter, never calls createDbAdapter, and goes
\* through whatever the db section of backend.config.* holds.
SuppliedAdapterIgnoresDbConfig ==
    (app.pc # "idle" /\ app.dbAdapter /\ StartSettled) =>
        /\ app.pc = "listening"
        /\ ~app.created
        /\ app.enableCrud => app.stores = "supplied"

\* C29, what start() does: with a dbAdapter given, createDbAdapter is never
\* called and the CRUD stores are the supplied adapter's; but the db section
\* of the file is validated first, and start() throws exactly when that
\* validation throws.
SuppliedAdapterWinsAfterValidation ==
    (app.pc # "idle" /\ app.dbAdapter /\ StartSettled) =>
        /\ ~app.created
        /\ app.pc = "failed" <=> buildFileConfigThrows(app.fileDb, app.env)
        /\ (app.pc = "listening" /\ app.enableCrud) => app.stores = "supplied"

\* a dbAdapter is given, the file says adapter postgres with a postgres
\* section that has no connection string, DATABASE_URL is unset: start()
\* threw
SuppliedAdapterStoppedByDbSection ==
    /\ app.pc = "failed"
    /\ app.dbAdapter
    /\ app.fileDb.shape = "object"
    /\ app.fileDb.adapter = "postgres"
    /\ app.fileDb.postgres = Section("object", "undefined", "undefined")
    /\ app.fileDb.json = NoSection
    /\ app.fileDb.mongodb = NoSection
    /\ app.env.DATABASE_URL = "undefined"
    /\ app.error = "Invalid backend config"

\* the connect() of init() job j throws on this step
InitConnectThrows(j) ==
    /\ tasks[j].op = "init"
    /\ tasks[j].pc \in {"connecting", "closing"}
    /\ tasks'[j].res = "thrown"

\* the connect() of bootstrap b throws on this step
BootstrapConnectThrows(b) ==
    /\ mongo.bs[b].pc \in {"connecting", "closing"}
    /\ mongo'.bs[b].pc = "rejected"

\* call j enters connect() on this step, and what connect() hands it at once
EntersConnect(j) ==
    /\ tasks[j].pc = "start"
    /\ tasks'[j].pc # "start"
    /\ tasks[j].op = "init" \/ (tasks[j].op = "call" /\ mongo.cache[tasks[j].e] = 0)

GotAtOnce(j) ==
    IF tasks[j].op = "init" THEN tasks'[j].got ELSE mongo'.bs[mongo'.cache[tasks[j].e]].got

\* on this step connect() returns client c to a caller
Returns(c) ==
    \/ \E j \in Jobs : tasks[j].op = "init" /\ tasks[j].got # c /\ tasks'[j].got = c
    \/ \E b \in Attempts : mongo.bs[b].got # c /\ mongo'.bs[b].got = c

\* C31: with the calls made one after another, a connect() that throws has
\* called close() on the client it constructed and has set client and db to
\* null; a connect() that finds client or db null constructs a client never
\* seen before and calls its connect(); a connect() that finds both set
\* returns that client, which is connected, and constructs nothing.
FailedConnectDiscardsClient ==
    [][/\ \A j \in Jobs : InitConnectThrows(j) =>
            /\ mongo'.client = 0 /\ mongo'.db = 0
            /\ mongo'.state[tasks[j].mine] = "failed"
            /\ mongo'.closes[tasks[j].mine] >= 1
       /\ \A b \in Attempts : BootstrapConnectThrows(b) =>
            /\ mongo'.client = 0 /\ mongo'.db = 0
            /\ mongo'.state[mongo.bs[b].mine] = "failed"
            /\ mongo'.closes[mongo.bs[b].mine] >= 1
       /\ \A j \in Jobs : EntersConnect(j) =>
            IF mongo.client # 0 /\ mongo.db # 0
            THEN /\ mongo'.made = mongo.made
                 /\ GotAtOnce(j) = mongo.client
                 /\ mongo.state[mongo.client] = "open"
            ELSE /\ mongo'.made = mongo.made + 1
                 /\ mongo'.client = mongo.made + 1
                 /\ mongo.state[mongo.made + 1] = "none"
                 /\ mongo'.state[mongo.made + 1] = "connecting"
                 /\ mongo.closes[mongo.made + 1] = 0
       /\ \A c \in Pools : Returns(c) => mongo'.state[c] = "open"]_vars

\* init() failed to connect client 1 and threw, the next init() constructed
\* and connected client 2, and the store call after it was handed client 2
FailedConnectDiscardsClientWitness ==
    /\ mongo.seq
    /\ mongo.state[1] = "failed"
    /\ mongo.closes[1] = 1
    /\ mongo.state[2] = "open"
    /\ mongo.made = 2
    /\ tasks[1].res = "thrown"
    /\ tasks[2].res = "ok" /\ tasks[2].got = 2
    /\ tasks[3].op = "call" /\ tasks[3].res = "ok" /\ tasks[3].got = 2

\* no connect() has failed and no dispose() has run so far
Undisturbed ==
    /\ \A c \in Pools : mongo.state[c] # "failed"
    /\ \A j \in Jobs : tasks[j].op = "dispose" => tasks[j].pc = "start"

\* on this step a connect() that failed calls close() on client c
CatchCloses(mine, c) ==
    /\ mongo'.closes[c] > mongo.closes[c]
    /\ mongo'.state[mine] = "failed"

\* C32 as stated: with the calls interleaved, callers that enter connect()
\* before a connection is established construct one client between them; a
\* connect() that fails closes and clears no client but the one it
\* constructed; when a dispose() completes every client constructed so far
\* has been closed.
ConcurrentConnectKeepsOneClient ==
    [][/\ Undisturbed => mongo.made <= 1
       /\ \A j \in Jobs, c \in Pools :
            (tasks[j].pc = "connecting" /\ CatchCloses(tasks[j].mine, c)) => c = tasks[j].mine
       /\ \A b \in Attempts, c \in Pools :
            (mongo.bs[b].pc = "connecting" /\ CatchCloses(mongo.bs[b].mine, c)) =>
                c = mongo.bs[b].mine
       /\ \A j \in Jobs : InitConnectThrows(j) => mongo.client \in {0, tasks[j].mine}
       /\ \A b \in Attempts : BootstrapConnectThrows(b) => mongo.client \in {0, mongo.bs[b].mine}
       /\ \A j \in Jobs :
            (tasks[j].op = "dispose" /\ tasks[j].pc # "done" /\ tasks'[j].pc = "done") =>
                \A c \in 1..mongo.made : mongo'.closes[c] >= 1]_vars

\* C32, what connect() and dispose() do: a caller constructs a client
\* whenever it finds client or db null, also while another caller's client
\* is connecting; a failed connect() closes the client the shared reference
\* holds at that time and clears the reference; dispose() closes only the
\* client the reference holds when it is called.
ConnectActsOnSharedReference ==
    [][/\ \A j \in Jobs : EntersConnect(j) =>
            (mongo'.made = mongo.made + 1 <=> (mongo.client = 0 \/ mongo.db = 0))
       /\ \A c \in Pools : mongo'.closes[c] > mongo.closes[c] => c = mongo.client
       /\ \A j \in Jobs : InitConnectThrows(j) => (mongo'.client = 0 /\ mongo'.db = 0)
       /\ \A b \in Attempts : BootstrapConnectThrows(b) => (mongo'.client = 0 /\ mongo'.db = 0)]_vars

\* two init() calls entered connect() before either was connected: two
\* clients were constructed and both connected; the dispose() after them
\* closed client 2 only, client 1 is left open
FirstClientLeaked ==
    /\ ~mongo.seq
    /\ tasks[1].op = "init" /\ tasks[1].res = "ok" /\ tasks[1].mine = 1
    /\ tasks[2].op = "init" /\ tasks[2].res = "ok" /\ tasks[2].mine = 2
    /\ tasks[3].op = "dispose" /\ tasks[3].pc = "done"
    /\ mongo.state[1] = "open" /\ mongo.closes[1] = 0
    /\ mongo.state[2] = "open" /\ mongo.closes[2] = 1

\* bootstrap b rejects on this step
BootstrapRejects(b) == mongo.bs[b].pc # "rejected" /\ mongo'.bs[b].pc = "rejected"

\* C33 as stated: a bootstrap that fails removes the cache entry of its
\* collection only if that entry is its own promise; an entry memoized for a
\* newer bootstrap after dispose() cleared the cache stays.
EvictionRemovesOwnEntryOnly ==
    [][\A b \in Attempts :
         (BootstrapRejects(b) /\ mongo.cache[mongo.bs[b].e] # b) =>
             mongo'.cache[mongo.bs[b].e] = mongo.cache[mongo.bs[b].e]]_vars

\* C33, what the guard does: collectionCache.delete(collectionName) removes
\* whatever entry the collection's name has, and no other collection's.
EvictionDeletesByName ==
    [][\A b \in Attempts : BootstrapRejects(b) =>
         /\ mongo'.cache[mongo.bs[b].e] = 0
         /\ \A e \in Entities \ {mongo.bs[b].e} : mongo'.cache[e] = mongo.cache[e]]_vars

\* bootstrap 1 was pending when dispose() cleared the cache and bootstrap 2
\* of the same collection was memoized; bootstrap 1 failed and removed the
\* entry of bootstrap 2, which is still under way
NewerEntryEvicted ==
    /\ mongo.bs[1].pc = "rejected"
    /\ mongo.bs[1].evicted = 2
    /\ mongo.bs[2].e = mongo.bs[1].e
    /\ mongo.bs[2].pc \in {"connecting", "ddl"}
    /\ mongo.cache[mongo.bs[1].e] = 0

\* how often call c was made, and where
Count(log, c) == Cardinality({i \in 1..Len(log) : log[i] = c})

Follows(log, c, d) == \E i \in 1..Len(log) - 1 : log[i] = c /\ log[i + 1] = d

\* a first store call on the Document adapter has run its bootstrap
Bootstrapped == kind = "mongodb" /\ ~fail.ready /\ fail.pc # "start"

\* C34: the bootstrap of a collection that listCollections does not find
\* calls createCollection with the validator once; the plain createCollection
\* is called exactly when that call failed, directly after it; a collection
\* that exists is not created; and when only the create with validator fails
\* the bootstrap resolves and the store call does not reject.
ValidatorFailureFallsBack ==
    Bootstrapped =>
        LET log == fail.made IN
        /\ Count(log, "createValidated") =
              IF ~fail.exists /\ fail.point \notin {"connect", "list"} THEN 1 ELSE 0
        /\ Count(log, "createPlain") =
              IF Count(log, "createValidated") = 1 /\ fail.point \in {"createValidated", "createPlain"}
              THEN 1 ELSE 0
        /\ Count(log, "createPlain") = 1 => Follows(log, "createValidated", "createPlain")
        /\ Count(log, "createValidated") = 1 => Follows(log, "list", "createValidated")
        /\ fail.point = "createValidated" => fail.res.tag # "error"

\* a first create on a collection that does not exist, on a server that
\* refuses the validator: the plain createCollection and collMod were called
\* and the call returned its record
ValidatorFailureFallsBackWitness ==
    /\ Bootstrapped
    /\ fail.pc = "done"
    /\ fail.op = "create"
    /\ ~fail.exists
    /\ fail.point = "createValidated"
    /\ fail.made = <<"connect", "list", "createValidated", "createPlain", "collMod", "query">>
    /\ fail.res.tag = "item"

\* C35: every bootstrap that gets past finding or creating the collection
\* calls collMod exactly once, as its last call, after listCollections (the
\* collection exists) or after the createCollection that succeeded; a
\* failing collMod changes nothing: the bootstrap makes the same calls and
\* resolves as it does when collMod succeeds, and the store call goes on.
ValidatorSyncIsBestEffort ==
    Bootstrapped =>
        LET log == fail.made
            created == ~fail.exists
            reached == fail.point \notin {"connect", "list"} /\ ~(created /\ fail.point = "createPlain") IN
        /\ Count(log, "collMod") = IF reached THEN 1 ELSE 0
        /\ reached =>
             Follows(log, IF fail.exists THEN "list"
                          ELSE IF fail.point = "createValidated" THEN "createPlain"
                          ELSE "createValidated", "collMod")
        /\ Count(log, "collMod") = 1 =>
             \A i \in 1..Len(log) : log[i] = "collMod" => (i = Len(log) \/ log[i + 1] = "query")
        /\ fail.point = "collMod" =>
             /\ fail.res.tag # "error"
             /\ RunBootstrap(fail, BootstrapCalls(fail), <<>>)
                  = RunBootstrap([fail EXCEPT !.point = "none"], BootstrapCalls(fail), <<>>)

\* a first getAll on a collection that exists, on a server that refuses
\* collMod: collMod was called once and the call returned its list
ValidatorSyncIsBestEffortWitness ==
    /\ Bootstrapped
    /\ fail.pc = "done"
    /\ fail.op = "getAll"
    /\ fail.exists
    /\ fail.point = "collMod"
    /\ fail.made = <<"connect", "list", "collMod", "query">>
    /\ fail.res.tag = "list"

\* C36: on the memory, file and relational stores an update whose body sets
\* b to null returns a record that has key b with the value null, next to
\* the body's other fields with their values and the record's other fields
\* (updatedAt apart) as they were; that record is what the store holds
\* afterwards, and what the file store has written to its file.
NullPatchKeepsKey ==
    [][\A id \in LookupIds :
         (/\ kind \in {"memory", "json", "postgres"}
          /\ last'.op = "update" /\ last'.id = id /\ last'.res.tag = "item"
          /\ "b" \in DOMAIN ClientFields(last'.payload)
          /\ last'.payload.f["b"] = "null") =>
            LET old == getById(id).val
                r == last'.res.val
                body == ClientFields(last'.payload) IN
            /\ "b" \in DOMAIN r /\ r["b"] = "null"
            /\ DOMAIN r = (DOMAIN old) \cup (DOMAIN body)
            /\ \A k \in DOMAIN body : r[k] = body[k]
            /\ \A k \in (DOMAIN old) \ (DOMAIN body \cup {"updatedAt"}) : r[k] = old[k]
            /\ getById(id)' = Found(r)
            /\ kind = "json" => \E i \in 1..Len(disk'.items) : disk'.items[i] = r]_vars

\* a record of the relational store that had b = n2 was updated with
\* { b: null }: it has b = null and still has a
NullPatchKeepsKeyWitness ==
    /\ Updated
    /\ kind = "postgres"
    /\ last.payload = Obj([b |-> "null"])
    /\ DOMAIN last.res.val = ReservedKeys \cup {"a", "b", "x"}
    /\ last.res.val["b"] = "null"
    /\ last.res.val["a"] = "n1"
    /\ getById(last.id) = Found(last.res.val)

\* C37: from empty stores, with the same ids and clock readings and every
\* rewrite of the file succeeding, each call returns on the file store what
\* it returns on the memory store, the two Maps hold the same records in the
\* same order (so any next getAll / getById agrees), and the file holds them.
FileStoreMatchesMemoryStore ==
    /\ last.res = twin.res
    /\ items = twin.items
    /\ disk.exists => disk.items = twin.items

\* two records were created, the first was updated, and getAll returns the
\* same two records in the same order on both stores
FileStoreMatchesMemoryStoreWitness ==
    /\ twin.res # NoResult
    /\ last.op = "getAll"
    /\ Len(last.res.val) = 2
    /\ last.res.val[1]["updatedAt"] > last.res.val[1]["createdAt"]
    /\ twin.res = last.res
    /\ disk.items = twin.items

\* the index a store constructed on the file as it is now would have
Committed == MapOf(loadPersistedData(disk).items)

\* C38 as stated: between two calls of the file store, also after a call
\* whose rewrite failed, the index holds exactly the records of the file on
\* disk: no record or record state that was not written, every record that
\* was not removed from the file.
IndexMatchesCommittedFile == proc.pc = "idle" => items = Committed

\* C38, what the store does: a call whose rewrite fails throws and leaves the
\* entity's file as it was before the call, but the index keeps the change
\* the call made before it called flush().
FailedRewriteKeepsIndexChange ==
    [][(proc.pc = "flush" /\ proc'.pc = "idle" /\ last'.res = Thrown) =>
         /\ disk' = proc.prev
         /\ items' = items
         /\ proc.next = flush(items')]_vars

\* a create whose rewrite failed on a store without a file: the getAll after
\* it returns the record, and there is still no file
UncommittedRecordServed ==
    /\ proc.pc = "idle"
    /\ last.op = "getAll"
    /\ Len(last.res.val) = 1
    /\ ~disk.exists
    /\ items # Committed

\* C39 as stated: for two models registered under different names, on every
\* adapter, a record created through the first model's store is not in the
\* list the second model's store returns.
StoresOfDistinctModelsAreDisjoint ==
    (iso.pc = "read" /\ iso.first # iso.second /\ iso.registered = {iso.first, iso.second}) =>
        ~iso.listed

\* C39, what the adapters do: the two stores share their records exactly
\* when the two names map to the same place: the same name once in lower
\* case (memory, json-file), the same table or collection name once in lower
\* case and with every character outside letters, digits and underscore
\* replaced by an underscore (Relational, Document).
StoresShareOnEqualKeys ==
    iso.pc = "read" =>
        iso.listed <=>
            IF kind \in {"memory", "json"}
            THEN toLowerCase(iso.first) = toLowerCase(iso.second)
            ELSE replaceNonWord(toLowerCase(iso.first)) = replaceNonWord(toLowerCase(iso.second))

\* the models "A" and "a" are both registered; on the memory adapter the
\* record created through the store of "A" is listed by the store of "a"
RecordSeenThroughOtherModel ==
    /\ iso.pc = "read"
    /\ kind = "memory"
    /\ iso.first = <<"A">>
    /\ iso.second = <<"a">>
    /\ Cardinality(iso.registered) = 2
    /\ iso.listed

\* the entries of a file that have id, createdAt and updatedAt, and the last
\* of them with a given id
ValidEntries(file) ==
    IF file.exists /\ "items" \in DOMAIN file
    THEN {i \in 1..Len(file.items) : isCrudItem(file.items[i])} ELSE {}

LastEntry(file, id) ==
    LET same == {i \in ValidEntries(file) : file.items[i]["id"] = id} IN
    file.items[CHOOSE i \in same : \A j \in same : j <= i]

EntryIds(file) == {file.items[i]["id"] : i \in ValidEntries(file)}

\* the record a completed call wrote or removed
Target(call) == IF call.op = "create" THEN call.res.val["id"] ELSE call.id

\* C40: constructing the store on a file that parses as JSON leaves the file
\* where it is and as it is, and puts every entry that has id, createdAt and
\* updatedAt into the index, under its id with the last such entry's value;
\* and a rewrite that completes for a call on another record leaves every
\* such entry of the file, with that value, in the file.
ParsedFileIsKept ==
    [][/\ (proc.pc = "down" /\ proc'.pc = "idle" /\ JSONparses(disk)) =>
            /\ disk' = disk
            /\ aside' = aside
            /\ \A id \in EntryIds(disk) :
                 MapHas(items', id) /\ MapGet(items', id) = LastEntry(disk, id)
            /\ Len(items') = Cardinality(EntryIds(disk))
       /\ (proc.pc = "flush" /\ proc'.pc = "idle") =>
            \A id \in EntryIds(proc.prev) \ {Target(proc.call)} :
                /\ id \in EntryIds(disk')
                /\ LastEntry(disk', id) = LastEntry(proc.prev, id)]_vars

\* the store was constructed on a file holding two entries with id 1 and an
\* entry without id; a record was created; the file holds the later entry of
\* id 1 and the new record
ParsedFileIsKeptWitness ==
    /\ proc.pc = "idle"
    /\ last.op = "create"
    /\ last.res.tag = "item"
    /\ aside = {}
    /\ disk.exists
    /\ "items" \in DOMAIN disk
    /\ Len(disk.items) = 2
    /\ disk.items[1] = ForeignItemAgain
    /\ disk.items[2] = last.res.val

====
